---- MODULE Spec2Model ----
(***************************************************************************)
(* Resume screening: the hybrid scoring core.                              *)
(*                                                                         *)
(* Three scorer variants are modelled from their sources:                  *)
(*   E_  EnhancedAnalysisService   (src/src/services/enhancedAnalysisService.ts) *)
(*   S_  SimpleAnalysisService     (src/unnamed/part_005, lines 1-434)     *)
(*   A_  AIAnalysisService         (src/unnamed/part_005, lines 436-877)   *)
(*                                                                         *)
(* Strings are sequences of one-character strings, so that toLowerCase and *)
(* String.includes are computed and not assumed.  JavaScript numbers that   *)
(* come from the LLM reply are records [k, t]: k is "num", "NaN" or        *)
(* "undefined", and t is the value in tenths (72.5 is t = 725).            *)
(*                                                                         *)
(* Six specifications:                                                     *)
(*   Spec       one scoring call, over a small vocabulary                  *)
(*   SpecMatch  the matcher alone, over a wider vocabulary                 *)
(*   SpecConc   two concurrent calls of one scorer (CE_, CA_)              *)
(*   SpecApp    the other operations, one per behaviour:                   *)
(*              D_ DirectDbService.uploadAndAnalyzeResume,                 *)
(*              G_ generateSampleAnalyses (src/unnamed/part_003),          *)
(*              M_ middleware (src/src/middleware.ts)                      *)
(*   SpecUi     the services and components around the scorers, one per    *)
(*              behaviour:                                                 *)
(*              F_  FlaskApiService.uploadAndAnalyzeResume,                *)
(*              St_ useAppStore (src/unnamed/part_009),                    *)
(*              T_  toasts and Toaster (src/unnamed/part_006),             *)
(*              Z_  ResumeUploadZone (src/src/components/ui/input.tsx),    *)
(*              U_  ResumeUploadFlask (src/unnamed/part_008),              *)
(*              K_  CloudinaryService.uploadFile                           *)
(*   SpecToasts the toasts alone, with the fairness of their timeouts      *)
(***************************************************************************)
EXTENDS Integers, Sequences, FiniteSets, TLC

VARIABLES
  variant,          \* which scorer the call runs: "enhanced", "simple", "ai"
  resumeText,       \* the resumeText argument
  jobDescription,   \* the jobDescription argument
  resumeData,       \* AnalysisRequest.resumeData (AI variant reads .skills)
  providers,        \* AIAnalysisService.providers, in initialisation order
  pc,               \* position of the call
  hardMatchResult,  \* const hardMatchResult
  providerIdx,      \* index of the for-of loop over this.providers
  attempts,         \* log of provider calls made by performSemanticAnalysis
  llmReply,         \* the backend reply the call received (NoReply before)
  semanticResult,   \* const semanticResult
  report,           \* the value the returned promise resolves with
  backend,          \* whether the remote service ever settles a request: "answers", "silent"
  outcomes,         \* log of how each provider call of the AI loop ended
  calls,            \* concurrent calls of one scorer: call id -> arguments and locals
  op,               \* the operation of the application a behaviour exercises
  appPc,            \* position of that operation
  jobId,            \* DirectDbService.uploadAndAnalyzeResume: the jobId argument
  file,             \* ... the file argument
  now,              \* ... the reading of Date.now()
  foundJob,         \* ... const jobDescription (line 69)
  extractedText,    \* ... const resumeText (line 75)
  uploadResult,     \* ... the value its promise resolves with
  sampleAnalyses,   \* generateSampleAnalyses: the analyses mapped so far
  request,          \* middleware: the request
  response,         \* middleware: the response returned
  events,           \* what an operation did that its surroundings observe, in order
  settled,          \* how the promise of a service call settled (NoResult before)
  resumes,          \* useAppStore: state.resumes
  filters,          \* useAppStore: state.filters
  filtered,         \* what getFilteredResumes() returned to its caller: [list |-> ...]
  toasts,           \* part_006 line 85: let toasts
  listeners,        \* part_006 line 86: let listeners
  timers,           \* callbacks registered with setTimeout/setInterval, still to run
  currentToasts,    \* Toaster: the currentToasts state of the component
  isUploading,      \* upload components: the isUploading state
  selectedFile,     \* ResumeUploadFlask: the selectedFile state
  uploadProgress    \* upload components: the uploadProgress state

vars == <<variant, resumeText, jobDescription, resumeData, providers, pc,
          hardMatchResult, providerIdx, attempts, llmReply, semanticResult, report,
          backend, outcomes, calls, op, appPc, jobId, file, now, foundJob,
          extractedText, uploadResult, sampleAnalyses, request, response,
          events, settled, resumes, filters, filtered, toasts, listeners, timers,
          currentToasts, isUploading, selectedFile, uploadProgress>>

\* the variables of the scoring calls
scorerVars == <<variant, resumeText, jobDescription, resumeData, providers, pc,
                hardMatchResult, providerIdx, attempts, llmReply, semanticResult, report,
                backend, outcomes, calls>>

\* the variables of the application's other operations
appVars == <<op, appPc, jobId, file, now, foundJob, extractedText, uploadResult,
             sampleAnalyses, request, response,
             events, settled, resumes, filters, filtered, toasts, listeners, timers,
             currentToasts, isUploading, selectedFile, uploadProgress>>

\* the variables of the services and components around the scorers
uiVars == <<events, settled, resumes, filters, filtered, toasts, listeners, timers,
            currentToasts, isUploading, selectedFile, uploadProgress>>

----------------------------------------------------------------------------
(* Bounds of the model *)

\* longest must-have list and longest good-to-have list of an enumerated job
MaxSkills == 2

\* most words in an enumerated resume text
MaxWords == 2

\* the sample candidates generateSampleAnalyses maps, of its twelve
MaxCandidates == 2

\* the longest resume list addResume and setResumes build in the store
MaxResumes == 2

\* the toasts added in one behaviour
MaxToasts == 2

\* the progress events of one upload to Cloudinary
MaxProgressEvents == 1

----------------------------------------------------------------------------
(* Strings *)

UpperChars == <<"A", "B", "C", "D", "E", "F", "G", "H", "I", "J", "K", "L", "M", "N", "O", "P", "Q", "R", "S", "T", "U", "V", "W", "X", "Y", "Z">>
LowerChars == <<"a", "b", "c", "d", "e", "f", "g", "h", "i", "j", "k", "l", "m", "n", "o", "p", "q", "r", "s", "t", "u", "v", "w", "x", "y", "z">>

\* the set of the elements of a sequence
Range(f) == {f[i] : i \in DOMAIN f}

\* the lower-case letter of every upper-case letter
lowerOf == [c \in Range(UpperChars) |->
              LowerChars[CHOOSE i \in DOMAIN UpperChars : UpperChars[i] = c]]

\* String.prototype.toLowerCase on one character (ASCII letters)
toLowerChar(c) == IF c \in DOMAIN lowerOf THEN lowerOf[c] ELSE c

\* String.prototype.toLowerCase
toLowerCase(s) == [i \in DOMAIN s |-> toLowerChar(s[i])]

\* String.prototype.includes: needle occurs in hay as a contiguous substring
includes(hay, needle) ==
  \E i \in 0..(Len(hay) - Len(needle)) : SubSeq(hay, i + 1, i + Len(needle)) = needle

\* Array.prototype.includes on a sequence
arrayIncludes(arr, x) == \E i \in DOMAIN arr : arr[i] = x

\* Array.prototype.join(' ') of the words of a text
RECURSIVE joinWords(_)
joinWords(ws) ==
  IF ws = <<>> THEN <<>>
  ELSE IF Len(ws) = 1 THEN ws[1]
  ELSE ws[1] \o <<" ">> \o joinWords(Tail(ws))

\* all sequences over S of length at most n
SeqsUpTo(S, n) == UNION {[1..k -> S] : k \in 0..n}

----------------------------------------------------------------------------
(* Skill names, resume words and job titles of the enumerated inputs *)

JavaScript == <<"J", "a", "v", "a", "S", "c", "r", "i", "p", "t">>
React == <<"R", "e", "a", "c", "t">>
NodeJs == <<"N", "o", "d", "e", ".", "j", "s">>
TypeScript == <<"T", "y", "p", "e", "S", "c", "r", "i", "p", "t">>
AWS == <<"A", "W", "S">>
w_React == <<"R", "e", "a", "c", "t">>
w_typescript == <<"t", "y", "p", "e", "s", "c", "r", "i", "p", "t">>
w_cloud == <<"c", "l", "o", "u", "d">>
w_AWS == <<"A", "W", "S">>
w_built == <<"b", "u", "i", "l", "t">>
t_FrontendDeveloper == <<"F", "r", "o", "n", "t", "e", "n", "d", " ", "D", "e", "v", "e", "l", "o", "p", "e", "r">>
t_Intern == <<"I", "n", "t", "e", "r", "n">>

----------------------------------------------------------------------------
(* The fixed tables of the matcher and of the simple semantic score *)

skillVariations ==
     (<<"j", "a", "v", "a", "s", "c", "r", "i", "p", "t">> :> <<
         <<"j", "s">>,
         <<"n", "o", "d", "e", ".", "j", "s">>,
         <<"n", "o", "d", "e", "j", "s">>,
         <<"r", "e", "a", "c", "t">>,
         <<"a", "n", "g", "u", "l", "a", "r">>,
         <<"v", "u", "e">>>>)
  @@ (<<"p", "y", "t", "h", "o", "n">> :> <<
         <<"p", "y">>,
         <<"d", "j", "a", "n", "g", "o">>,
         <<"f", "l", "a", "s", "k">>,
         <<"f", "a", "s", "t", "a", "p", "i">>,
         <<"p", "a", "n", "d", "a", "s">>,
         <<"n", "u", "m", "p", "y">>>>)
  @@ (<<"j", "a", "v", "a">> :> <<
         <<"s", "p", "r", "i", "n", "g">>,
         <<"h", "i", "b", "e", "r", "n", "a", "t", "e">>,
         <<"m", "a", "v", "e", "n">>,
         <<"g", "r", "a", "d", "l", "e">>>>)
  @@ (<<"r", "e", "a", "c", "t">> :> <<
         <<"r", "e", "a", "c", "t", "j", "s">>,
         <<"r", "e", "a", "c", "t", ".", "j", "s">>,
         <<"j", "s", "x">>,
         <<"h", "o", "o", "k", "s">>>>)
  @@ (<<"a", "n", "g", "u", "l", "a", "r">> :> <<
         <<"a", "n", "g", "u", "l", "a", "r", "j", "s">>,
         <<"a", "n", "g", "u", "l", "a", "r", ".", "j", "s">>,
         <<"t", "y", "p", "e", "s", "c", "r", "i", "p", "t">>>>)
  @@ (<<"m", "a", "c", "h", "i", "n", "e", " ", "l", "e", "a", "r", "n", "i", "n", "g">> :> <<
         <<"m", "l">>,
         <<"a", "i">>,
         <<"a", "r", "t", "i", "f", "i", "c", "i", "a", "l", " ", "i", "n", "t", "e", "l", "l", "i", "g", "e", "n", "c", "e">>,
         <<"t", "e", "n", "s", "o", "r", "f", "l", "o", "w">>,
         <<"p", "y", "t", "o", "r", "c", "h">>>>)
  @@ (<<"s", "q", "l">> :> <<
         <<"m", "y", "s", "q", "l">>,
         <<"p", "o", "s", "t", "g", "r", "e", "s", "q", "l">>,
         <<"d", "a", "t", "a", "b", "a", "s", "e">>,
         <<"d", "b">>>>)
  @@ (<<"a", "w", "s">> :> <<
         <<"a", "m", "a", "z", "o", "n", " ", "w", "e", "b", " ", "s", "e", "r", "v", "i", "c", "e", "s">>,
         <<"c", "l", "o", "u", "d">>,
         <<"e", "c", "2">>,
         <<"s", "3">>,
         <<"l", "a", "m", "b", "d", "a">>>>)
  @@ (<<"d", "o", "c", "k", "e", "r">> :> <<
         <<"c", "o", "n", "t", "a", "i", "n", "e", "r", "i", "z", "a", "t", "i", "o", "n">>,
         <<"k", "u", "b", "e", "r", "n", "e", "t", "e", "s">>,
         <<"k", "8", "s">>>>)
  @@ (<<"g", "i", "t">> :> <<
         <<"g", "i", "t", "h", "u", "b">>,
         <<"v", "e", "r", "s", "i", "o", "n", " ", "c", "o", "n", "t", "r", "o", "l">>,
         <<"g", "i", "t", "l", "a", "b">>,
         <<"b", "i", "t", "b", "u", "c", "k", "e", "t">>>>)

jobKeywords ==
     (<<"s", "o", "f", "t", "w", "a", "r", "e", " ", "e", "n", "g", "i", "n", "e", "e", "r">> :> <<
         <<"d", "e", "v", "e", "l", "o", "p", "m", "e", "n", "t">>,
         <<"p", "r", "o", "g", "r", "a", "m", "m", "i", "n", "g">>,
         <<"c", "o", "d", "i", "n", "g">>,
         <<"s", "o", "f", "t", "w", "a", "r", "e">>,
         <<"a", "p", "p", "l", "i", "c", "a", "t", "i", "o", "n">>,
         <<"s", "y", "s", "t", "e", "m">>>>)
  @@ (<<"f", "r", "o", "n", "t", "e", "n", "d", " ", "d", "e", "v", "e", "l", "o", "p", "e", "r">> :> <<
         <<"u", "i">>,
         <<"u", "x">>,
         <<"r", "e", "s", "p", "o", "n", "s", "i", "v", "e">>,
         <<"d", "e", "s", "i", "g", "n">>,
         <<"u", "s", "e", "r", " ", "i", "n", "t", "e", "r", "f", "a", "c", "e">>,
         <<"w", "e", "b">>>>)
  @@ (<<"d", "a", "t", "a", " ", "s", "c", "i", "e", "n", "t", "i", "s", "t">> :> <<
         <<"a", "n", "a", "l", "y", "s", "i", "s">>,
         <<"s", "t", "a", "t", "i", "s", "t", "i", "c", "s">>,
         <<"m", "o", "d", "e", "l">>,
         <<"p", "r", "e", "d", "i", "c", "t", "i", "o", "n">>,
         <<"i", "n", "s", "i", "g", "h", "t", "s">>,
         <<"v", "i", "s", "u", "a", "l", "i", "z", "a", "t", "i", "o", "n">>>>)

experienceIndicators ==
  <<<<"y", "e", "a", "r", "s">>,
    <<"e", "x", "p", "e", "r", "i", "e", "n", "c", "e">>,
    <<"w", "o", "r", "k", "e", "d">>,
    <<"d", "e", "v", "e", "l", "o", "p", "e", "d">>,
    <<"b", "u", "i", "l", "t">>,
    <<"l", "e", "d">>,
    <<"m", "a", "n", "a", "g", "e", "d">>>>

projectIndicators ==
  <<<<"p", "r", "o", "j", "e", "c", "t">>,
    <<"b", "u", "i", "l", "t">>,
    <<"c", "r", "e", "a", "t", "e", "d">>,
    <<"d", "e", "v", "e", "l", "o", "p", "e", "d">>,
    <<"i", "m", "p", "l", "e", "m", "e", "n", "t", "e", "d">>>>

----------------------------------------------------------------------------
(* JavaScript numbers *)

\* an integer n as a JavaScript number
Num(n) == [k |-> "num", t |-> 10 * n]

\* a number given in tenths (Tenths(725) is 72.5)
Tenths(t) == [k |-> "num", t |-> t]

NaN == [k |-> "NaN", t |-> 0]

Undefined == [k |-> "undefined", t |-> 0]

\* ToBoolean of a number or undefined: undefined, NaN and 0 are falsy
truthy(v) == v.k = "num" /\ v.t # 0

\* v || d
orDefault(v, d) == IF truthy(v) THEN v ELSE d

\* Math.max(a, b) and Math.min(a, b) after ToNumber: undefined becomes NaN, NaN wins
Math_max(a, b) ==
  IF a.k # "num" \/ b.k # "num" THEN NaN ELSE IF a.t >= b.t THEN a ELSE b

Math_min(a, b) ==
  IF a.k # "num" \/ b.k # "num" THEN NaN ELSE IF a.t <= b.t THEN a ELSE b

\* Math.round(num / den) for den > 0: the nearest integer, halves rounded up
roundRatio(num, den) == (2 * num + den) \div (2 * den)

\* score >= n for a JavaScript number: false for NaN
atLeast(v, n) == v.k = "num" /\ v.t >= 10 * n

----------------------------------------------------------------------------
(* EnhancedAnalysisService.performHardMatch *)

\* E_isMatched without the variation table
E_isMatched_directOnly(resumeLower, skill) ==
  includes(resumeLower, toLowerCase(skill))

\* lines 116-124 (must-have loop): direct substring test, then the variation table
E_isMatched(resumeLower, skill) ==
  LET skillLower == toLowerCase(skill)
  IN  \/ includes(resumeLower, skillLower)
      \/ /\ skillLower \in DOMAIN skillVariations
         /\ \E i \in DOMAIN skillVariations[skillLower] :
              includes(resumeLower, toLowerCase(skillVariations[skillLower][i]))

\* E_isMatchedGood without the variation table
E_isMatchedGood_directOnly(resumeLower, skill) ==
  includes(resumeLower, toLowerCase(skill))

\* lines 135-142 (good-to-have loop): the same test, written out a second time
E_isMatchedGood(resumeLower, skill) ==
  LET skillLower == toLowerCase(skill)
  IN  \/ includes(resumeLower, skillLower)
      \/ /\ skillLower \in DOMAIN skillVariations
         /\ \E i \in DOMAIN skillVariations[skillLower] :
              includes(resumeLower, toLowerCase(skillVariations[skillLower][i]))

\* mustHaveSkills.forEach: every entry is pushed to one of the two arrays
RECURSIVE E_checkMustHave(_, _, _)
E_checkMustHave(resumeLower, skills, acc) ==
  IF skills = <<>> THEN acc
  ELSE LET skill == Head(skills)
       IN  E_checkMustHave(resumeLower, Tail(skills),
             IF E_isMatched(resumeLower, skill)
             THEN [acc EXCEPT !.matched = Append(@, skill)]
             ELSE [acc EXCEPT !.missing = Append(@, skill)])

\* goodToHaveSkills.forEach: an entry is pushed unless its array already holds it
RECURSIVE E_checkGoodToHave(_, _, _)
E_checkGoodToHave(resumeLower, skills, acc) ==
  IF skills = <<>> THEN acc
  ELSE LET skill == Head(skills)
           isMatched == E_isMatchedGood(resumeLower, skill)
       IN  E_checkGoodToHave(resumeLower, Tail(skills),
             IF isMatched /\ ~arrayIncludes(acc.matched, skill)
             THEN [acc EXCEPT !.matched = Append(@, skill)]
             ELSE IF ~isMatched /\ ~arrayIncludes(acc.missing, skill)
             THEN [acc EXCEPT !.missing = Append(@, skill)]
             ELSE acc)

\* totalSkills > 0 ? (matchedSkills.length / totalSkills) * 100 : 0, then Math.round
E_hardMatchScore(matchedSkills, mustHaveSkills, goodToHaveSkills) ==
  LET totalSkills == Len(mustHaveSkills) + Len(goodToHaveSkills)
  IN  IF totalSkills > 0 THEN roundRatio(100 * Len(matchedSkills), totalSkills) ELSE 0

\* E_criticalMissingSkills without the filter
E_criticalMissingSkills_all(missingSkills, mustHaveSkills) == missingSkills

\* lines 159-161: missingSkills.filter(skill => mustHaveSkills.includes(skill))
E_criticalMissingSkills(missingSkills, mustHaveSkills) ==
  SelectSeq(missingSkills, LAMBDA skill : arrayIncludes(mustHaveSkills, skill))

\* JavaScript's null
Null == [k |-> "null", t |-> 0]

\* performHardMatch throws a TypeError: resumeText.toLowerCase() on null or undefined
\* (line 93), a property read on a null job (line 94), forEach on a list that is
\* undefined (lines 115 and 134)
E_performHardMatchThrows(text, job) ==
  \/ text = Null \/ text = Undefined
  \/ job = Null \/ job = Undefined
  \/ "must_have_skills" \notin DOMAIN job
  \/ "good_to_have_skills" \notin DOMAIN job

\* lines 92-163
E_performHardMatch(text, job) ==
  LET resumeLower == toLowerCase(text)
      mustHaveSkills == job.must_have_skills
      goodToHaveSkills == job.good_to_have_skills
      afterMust == E_checkMustHave(resumeLower, mustHaveSkills,
                                   [matched |-> <<>>, missing |-> <<>>])
      acc == E_checkGoodToHave(resumeLower, goodToHaveSkills, afterMust)
  IN  [hard_match_score |->
         E_hardMatchScore(acc.matched, mustHaveSkills, goodToHaveSkills),
       matched_skills |-> acc.matched,
       missing_skills |-> acc.missing,
       critical_missing_skills |-> E_criticalMissingSkills(acc.missing, mustHaveSkills)]

----------------------------------------------------------------------------
(* SimpleAnalysisService.performHardMatch *)

\* S_isMatched without the variation table
S_isMatched_directOnly(resumeLower, skill) ==
  includes(resumeLower, toLowerCase(skill))

\* lines 109-117
S_isMatched(resumeLower, skill) ==
  LET skillLower == toLowerCase(skill)
  IN  \/ includes(resumeLower, skillLower)
      \/ /\ skillLower \in DOMAIN skillVariations
         /\ \E i \in DOMAIN skillVariations[skillLower] :
              includes(resumeLower, toLowerCase(skillVariations[skillLower][i]))

\* [...mustHaveSkills, ...goodToHaveSkills].forEach: every entry is pushed
RECURSIVE S_checkAll(_, _, _)
S_checkAll(resumeLower, skills, acc) ==
  IF skills = <<>> THEN acc
  ELSE LET skill == Head(skills)
       IN  S_checkAll(resumeLower, Tail(skills),
             IF S_isMatched(resumeLower, skill)
             THEN [acc EXCEPT !.matched = Append(@, skill)]
             ELSE [acc EXCEPT !.missing = Append(@, skill)])

\* totalSkills > 0 ? Math.round((matchedSkills.length / totalSkills) * 100) : 50
S_hardMatchScore(matchedSkills, mustHaveSkills, goodToHaveSkills) ==
  LET totalSkills == Len(mustHaveSkills) + Len(goodToHaveSkills)
  IN  IF totalSkills > 0 THEN roundRatio(100 * Len(matchedSkills), totalSkills) ELSE 50

\* line 134
S_criticalMissingSkills(missingSkills, mustHaveSkills) ==
  SelectSeq(missingSkills, LAMBDA skill : arrayIncludes(mustHaveSkills, skill))

S_performHardMatch(text, job) ==
  LET resumeLower == toLowerCase(text)
      mustHaveSkills == job.must_have_skills
      goodToHaveSkills == job.good_to_have_skills
      acc == S_checkAll(resumeLower, mustHaveSkills \o goodToHaveSkills,
                        [matched |-> <<>>, missing |-> <<>>])
  IN  [hard_match_score |->
         S_hardMatchScore(acc.matched, mustHaveSkills, goodToHaveSkills),
       matched_skills |-> acc.matched,
       missing_skills |-> acc.missing,
       critical_missing_skills |-> S_criticalMissingSkills(acc.missing, mustHaveSkills)]

----------------------------------------------------------------------------
(* AIAnalysisService.performHardMatch *)

\* resumeSkills.some(rs => rs.includes(reqSkill) || reqSkill.includes(rs))
A_isMatched(resumeSkills, reqSkill) ==
  \E i \in DOMAIN resumeSkills :
    includes(resumeSkills[i], reqSkill) \/ includes(reqSkill, resumeSkills[i])

RECURSIVE A_checkRequired(_, _, _)
A_checkRequired(resumeSkills, skills, acc) ==
  IF skills = <<>> THEN acc
  ELSE LET reqSkill == Head(skills)
       IN  A_checkRequired(resumeSkills, Tail(skills),
             IF A_isMatched(resumeSkills, reqSkill)
             THEN [acc EXCEPT !.matched = Append(@, reqSkill)]
             ELSE [acc EXCEPT !.missing = Append(@, reqSkill)])

A_performHardMatch(data, job) ==
  LET both == job.must_have_skills \o job.good_to_have_skills
      requiredSkills == [i \in DOMAIN both |-> toLowerCase(both[i])]
      resumeSkills == [i \in DOMAIN data.skills |-> toLowerCase(data.skills[i])]
      acc == A_checkRequired(resumeSkills, requiredSkills,
                             [matched |-> <<>>, missing |-> <<>>])
  IN  [hardMatchScore |->
         IF Len(requiredSkills) > 0
         THEN roundRatio(100 * Len(acc.matched), Len(requiredSkills))
         ELSE 0,
       matchedSkills |-> acc.matched,
       missingSkills |-> acc.missing]

----------------------------------------------------------------------------
(* SCORE_THRESHOLDS *)

SCORE_THRESHOLDS_HIGH == 80

SCORE_THRESHOLDS_MEDIUM == 50

----------------------------------------------------------------------------
(* The backend reply *)

(* A reply is [status, body, text, object]:                                 *)
(*   status  "network_error" (fetch rejects), "not_ok" (response.ok false), *)
(*           "ok";                                                          *)
(*   body    "not_json" (response.json() rejects), "no_candidates" (the     *)
(*           path to the text does not exist), "text";                      *)
(*   text    the reply text as tokens: "{" and "}" are the braces, "fields" *)
(*           is a well-formed member list, "prose" is anything else;        *)
(*   object  the object the member list "fields" decodes to.                *)
NoReply == [status |-> "none", body |-> "none", text |-> <<>>, object |-> [none |-> TRUE]]

\* a JavaScript array, and a property that is absent
Arr(items) == [k |-> "array", items |-> items]

NoArr == [k |-> "undefined", items |-> <<>>]

\* arr || []
orEmpty(v) == IF v.k = "array" THEN v.items ELSE <<>>

\* text.match(/\{[\s\S]*\}/): from the first "{" to the last "}" after it; <<>> is null
jsonMatch(text) ==
  LET opens == {i \in DOMAIN text : text[i] = "{"}
      closes == {j \in DOMAIN text : text[j] = "}"}
  IN  IF opens = {} THEN <<>>
      ELSE LET first == CHOOSE i \in opens : \A i2 \in opens : i <= i2
               after == {j \in closes : j > first}
           IN  IF after = {} THEN <<>>
               ELSE SubSeq(text, first, CHOOSE j \in after : \A j2 \in after : j >= j2)

\* JSON.parse of a matched span: [ok, value]; ok = FALSE is a SyntaxError
JSON_parse(span, object, emptyObject) ==
  IF span = <<"{", "fields", "}">> THEN [ok |-> TRUE, value |-> object]
  ELSE IF span = <<"{", "}">> THEN [ok |-> TRUE, value |-> emptyObject]
  ELSE [ok |-> FALSE, value |-> emptyObject]

\* semantic scores an LLM reply may carry
LLMScores ==
  {Undefined, Num(0 - 5), Num(0), Num(50), Num(60), Tenths(725), Num(100), Num(150)}

\* reply texts: two that decode, and four that do not
GoodTexts == {<<"{", "fields", "}">>, <<"prose", "{", "fields", "}", "prose">>}

BadTexts ==
  {<<"prose">>, <<"}", "prose", "{">>, <<"{", "prose", "}">>,
   <<"{", "fields", "}", "prose", "{", "fields", "}">>}

----------------------------------------------------------------------------
(* EnhancedAnalysisService: semantic analysis and combination *)

E_EmptyObject ==
  [semantic_match_score |-> Undefined, strengths |-> NoArr, weaknesses |-> NoArr,
   improvement_suggestions |-> NoArr]

E_Object(score, present) ==
  [semantic_match_score |-> score,
   strengths |-> IF present THEN Arr(<<"llm strength">>) ELSE NoArr,
   weaknesses |-> IF present THEN Arr(<<"llm weakness">>) ELSE NoArr,
   improvement_suggestions |-> IF present THEN Arr(<<"llm suggestion">>) ELSE NoArr]

E_Replies ==
       {[status |-> st, body |-> "text", text |-> <<"prose">>, object |-> E_EmptyObject] :
          st \in {"network_error", "not_ok"}}
  \cup {[status |-> "ok", body |-> b, text |-> <<"prose">>, object |-> E_EmptyObject] :
          b \in {"not_json", "no_candidates"}}
  \cup {[status |-> "ok", body |-> "text", text |-> t, object |-> E_Object(Num(100), TRUE)] :
          t \in BadTexts \cup {<<"{", "}">>}}
  \cup {[status |-> "ok", body |-> "text", text |-> t, object |-> E_Object(v, q)] :
          t \in GoodTexts, v \in LLMScores, q \in BOOLEAN}

\* lines 341-375 (three of the list fields; the others are handled the same way)
E_getFallbackSemanticAnalysis ==
  [semantic_match_score |-> Num(65),
   strengths |-> Arr(<<"Relevant technical background", "Good educational foundation">>),
   weaknesses |-> Arr(<<"Limited industry experience", "Could improve project portfolio">>),
   improvement_suggestions |->
     Arr(<<"Build more comprehensive projects", "Contribute to open source",
           "Get relevant certifications", "Gain hands-on experience">>)]

\* E_performLLMAnalysis with a SyntaxError of JSON.parse answered by an empty object
E_performLLMAnalysis_parseToEmpty(reply) ==
  IF reply.status # "ok" \/ reply.body # "text" THEN E_getFallbackSemanticAnalysis
  ELSE LET span == jsonMatch(reply.text)
       IN  IF span = <<>> THEN E_getFallbackSemanticAnalysis
           ELSE JSON_parse(span, reply.object, E_EmptyObject).value

\* lines 226-264: every failure inside the try block ends in the catch
E_performLLMAnalysis(reply) ==
  IF reply.status # "ok" \/ reply.body # "text" THEN E_getFallbackSemanticAnalysis
  ELSE LET span == jsonMatch(reply.text)
       IN  IF span = <<>> THEN E_getFallbackSemanticAnalysis
           ELSE LET parsed == JSON_parse(span, reply.object, E_EmptyObject)
                IN  IF parsed.ok THEN parsed.value ELSE E_getFallbackSemanticAnalysis

\* E_finalScore with the two weights exchanged
E_finalScore_swapped(hard_match_score, semantic_match_score) ==
  IF semantic_match_score.k # "num" THEN NaN
  ELSE Num(roundRatio(60 * hard_match_score + 4 * semantic_match_score.t, 100))

\* Math.round((hardMatch.hard_match_score * 0.4) + (semantic.semantic_match_score * 0.6))
E_finalScore(hard_match_score, semantic_match_score) ==
  IF semantic_match_score.k # "num" THEN NaN
  ELSE Num(roundRatio(40 * hard_match_score + 6 * semantic_match_score.t, 100))

\* lines 279-282
E_verdict(finalScore) ==
  IF atLeast(finalScore, 80) THEN "High"
  ELSE IF atLeast(finalScore, 50) THEN "Medium"
  ELSE "Low"

E_combineAnalysisResults(hardMatch, semantic) ==
  LET finalScore == E_finalScore(hardMatch.hard_match_score, semantic.semantic_match_score)
  IN  [relevance_score |-> finalScore,
       verdict |-> E_verdict(finalScore),
       hard_match_score |-> hardMatch.hard_match_score,
       semantic_match_score |-> semantic.semantic_match_score,
       matched_skills |-> hardMatch.matched_skills,
       missing_skills |-> hardMatch.missing_skills,
       critical_missing_skills |-> hardMatch.critical_missing_skills,
       strengths |-> orEmpty(semantic.strengths),
       weaknesses |-> orEmpty(semantic.weaknesses),
       improvement_suggestions |-> orEmpty(semantic.improvement_suggestions)]

\* what a call that throws hands to its caller
Thrown == [thrown |-> TRUE]

\* getFallbackAnalysis answering with a canned hard match instead of matching again
E_getFallbackAnalysis_canned(text, job) ==
  E_combineAnalysisResults(
    [hard_match_score |-> 0, matched_skills |-> <<>>, missing_skills |-> <<>>,
     critical_missing_skills |-> <<>>],
    E_getFallbackSemanticAnalysis)

\* lines 380-385: performHardMatch is called again, with the same arguments
E_getFallbackAnalysis(text, job) ==
  IF E_performHardMatchThrows(text, job) THEN Thrown
  ELSE E_combineAnalysisResults(E_performHardMatch(text, job), E_getFallbackSemanticAnalysis)

----------------------------------------------------------------------------
(* SimpleAnalysisService: semantic score and report *)

\* arr.filter(x => resumeLower.includes(x)).length
countIncluded(resumeLower, arr) ==
  Cardinality({i \in DOMAIN arr : includes(resumeLower, arr[i])})

min(a, b) == IF a <= b THEN a ELSE b

S_calculateSemanticScore(job, text, hardScore) ==
  LET resumeLower == toLowerCase(text)
      jobTitle == toLowerCase(job.title)
      relevantKeywords ==
        IF jobTitle \in DOMAIN jobKeywords THEN jobKeywords[jobTitle] ELSE <<>>
      keywordBoost == min(20, countIncluded(resumeLower, relevantKeywords) * 3)
      experienceBoost == min(15, countIncluded(resumeLower, experienceIndicators) * 2)
      projectBoost == min(10, countIncluded(resumeLower, projectIndicators) * 2)
  IN  min(100, hardScore + keywordBoost + experienceBoost + projectBoost)

\* Math.round((hardMatch.hard_match_score * 0.4) + (semanticScore * 0.6))
S_finalScore(hard_match_score, semanticScore) ==
  roundRatio(4 * hard_match_score + 6 * semanticScore, 10)

\* lines 154-157
S_verdict(finalScore) ==
  IF finalScore >= 80 THEN "High"
  ELSE IF finalScore >= 60 THEN "Medium"
  ELSE "Low"

S_generateComprehensiveAnalysis(hardMatch, job, text) ==
  LET semanticScore == S_calculateSemanticScore(job, text, hardMatch.hard_match_score)
      finalScore == S_finalScore(hardMatch.hard_match_score, semanticScore)
  IN  [relevance_score |-> Num(finalScore),
       verdict |-> S_verdict(finalScore),
       hard_match_score |-> hardMatch.hard_match_score,
       semantic_match_score |-> Num(semanticScore),
       matched_skills |-> hardMatch.matched_skills,
       missing_skills |-> hardMatch.missing_skills,
       critical_missing_skills |-> hardMatch.critical_missing_skills]

----------------------------------------------------------------------------
(* AIAnalysisService: providers, semantic analysis and combination *)

\* the provider names in the order initializeProviders pushes them
ProviderOrder == <<"openai", "claude", "gemini">>

\* lines 492-521: a provider is pushed when its API key is set in the environment
initializeProviders(env) == SelectSeq(ProviderOrder, LAMBDA name : name \in env)

A_EmptyObject ==
  [semanticMatchScore |-> Undefined, strengths |-> NoArr, gaps |-> NoArr,
   improvementSuggestions |-> NoArr]

A_Object(score, present) ==
  [semanticMatchScore |-> score,
   strengths |-> IF present THEN Arr(<<"llm strength">>) ELSE NoArr,
   gaps |-> IF present THEN Arr(<<"llm gap">>) ELSE NoArr,
   improvementSuggestions |-> IF present THEN Arr(<<"llm suggestion">>) ELSE NoArr]

A_Replies ==
       {[status |-> "not_ok", body |-> "text", text |-> <<"prose">>, object |-> A_EmptyObject],
        [status |-> "ok", body |-> "no_candidates", text |-> <<"prose">>,
         object |-> A_EmptyObject],
        [status |-> "ok", body |-> "text", text |-> <<"prose">>, object |-> A_EmptyObject],
        [status |-> "ok", body |-> "text", text |-> <<"{", "prose", "}">>,
         object |-> A_EmptyObject]}
  \cup {[status |-> "ok", body |-> "text", text |-> <<"prose", "{", "fields", "}", "prose">>,
         object |-> A_Object(v, v.k = "num")] :
          v \in {Undefined, Num(0 - 5), Num(50), Tenths(725), Num(100), Num(150)}}

\* callOpenAI / callClaude / callGemini: TRUE when the call throws
A_callThrows(reply) == reply.status # "ok" \/ reply.body # "text"

\* lines 804-811
A_parseFallback ==
  [semanticMatchScore |-> Num(50),
   strengths |-> <<"Experience in relevant field">>,
   gaps |-> <<"Could improve technical skills">>,
   improvementSuggestions |->
     <<"Add more specific achievements", "Include relevant certifications">>]

\* lines 782-813
A_parseAIResponse(aiResponse, object) ==
  LET span == jsonMatch(aiResponse)
  IN  IF span = <<>> THEN A_parseFallback
      ELSE LET parsed == JSON_parse(span, object, A_EmptyObject)
           IN  IF ~parsed.ok THEN A_parseFallback
               ELSE [semanticMatchScore |->
                       Math_min(Num(100),
                                Math_max(Num(0),
                                         orDefault(parsed.value.semanticMatchScore, Num(0)))),
                     strengths |-> orEmpty(parsed.value.strengths),
                     gaps |-> orEmpty(parsed.value.gaps),
                     improvementSuggestions |->
                       orEmpty(parsed.value.improvementSuggestions)]

\* A_generateVerdict with strict comparisons
A_generateVerdict_strict(score) ==
  IF score.k = "num" /\ score.t > 800 THEN "High"
  ELSE IF score.k = "num" /\ score.t > 500 THEN "Medium"
  ELSE "Low"

\* lines 847-851
A_generateVerdict(score) ==
  IF atLeast(score, 80) THEN "High"
  ELSE IF atLeast(score, 50) THEN "Medium"
  ELSE "Low"

\* lines 819-842
A_combineAnalysisResults(hardMatch, semantic) ==
  LET hardScore == hardMatch.hardMatchScore   \* || 0 leaves an integer as it is
      semanticScore == orDefault(semantic.semanticMatchScore, Num(0))
      relevanceScore == Num(roundRatio(40 * hardScore + 6 * semanticScore.t, 100))
  IN  [relevanceScore |-> relevanceScore,
       verdict |-> "Medium",
       hardMatchScore |-> hardScore,
       semanticMatchScore |-> semanticScore,
       matchedSkills |-> hardMatch.matchedSkills,
       missingSkills |-> hardMatch.missingSkills,
       strengths |-> semantic.strengths,
       gaps |-> semantic.gaps,
       improvementSuggestions |-> semantic.improvementSuggestions]

\* lines 856-873
A_performBasicAnalysis(data, job) ==
  LET hardMatch == A_performHardMatch(data, job)
      score == IF hardMatch.hardMatchScore # 0 THEN hardMatch.hardMatchScore ELSE 30
  IN  [relevanceScore |-> Num(score),
       verdict |-> A_generateVerdict(Num(score)),
       hardMatchScore |-> score,
       semanticMatchScore |-> Num(score),
       matchedSkills |-> hardMatch.matchedSkills,
       missingSkills |-> hardMatch.missingSkills,
       strengths |-> <<"Shows relevant experience">>,
       gaps |-> <<"Could improve skill alignment">>,
       improvementSuggestions |-> <<"Focus on required skills", "Add relevant projects">>]

----------------------------------------------------------------------------
(* The inputs of a call *)

Titles == {t_FrontendDeveloper, t_Intern}

\* every job with a title of T whose two skill lists are sequences over S of at most
\* MaxSkills entries
Jobs(S, T) ==
  {[title |-> t, must_have_skills |-> m, good_to_have_skills |-> g] :
     t \in T, m \in SeqsUpTo(S, MaxSkills), g \in SeqsUpTo(S, MaxSkills)}

\* the job of the worked example
ScenarioJob ==
  [title |-> t_Intern,
   must_have_skills |-> <<JavaScript, React, NodeJs>>,
   good_to_have_skills |-> <<TypeScript, AWS>>]

\* the resumes of the worked example: as stated, with a variant of AWS, with AWS itself
ScenarioResumes ==
  {<<w_React, w_typescript>>, <<w_typescript, w_React, w_cloud>>,
   <<w_React, w_typescript, w_AWS>>}

\* the resumes as word lists: at most MaxWords words from W, and the extra ones
Resumes(W, extra) == SeqsUpTo(W, MaxWords) \cup extra

NoResult == [none |-> TRUE]

\* no concurrent call is under way
IdleCalls == calls = <<>>

\* no service call or component is active
IdleUi ==
  /\ events = <<>> /\ settled = NoResult
  /\ resumes = <<>> /\ filters = <<>> /\ filtered = NoResult
  /\ toasts = <<>> /\ listeners = <<>> /\ timers = <<>> /\ currentToasts = <<>>
  /\ isUploading = FALSE /\ selectedFile = Null /\ uploadProgress = 0

\* no other operation of the application is under way
IdleApp ==
  /\ IdleUi
  /\ op = "none" /\ appPc = "idle"
  /\ jobId = <<>> /\ file = "none" /\ now = 0
  /\ foundJob = NoResult /\ extractedText = <<>> /\ uploadResult = NoResult
  /\ sampleAnalyses = <<>>
  /\ request = NoResult /\ response = "none"

\* the state of a call that has not taken a step yet
InitCall ==
  /\ IdleCalls /\ IdleApp
  /\ pc = "start"
  /\ hardMatchResult = NoResult
  /\ providerIdx = 1
  /\ attempts = <<>>
  /\ llmReply = NoReply
  /\ semanticResult = NoResult
  /\ report = NoResult
  /\ backend \in IF variant = "simple" THEN {"answers"} ELSE {"answers", "silent"}
  /\ outcomes = <<>>

\* calls of analyzeResumeEnhanced whose arguments are not what the types promise:
\* the resume text null or undefined, the job null or undefined, the job without
\* its skill lists or without its second one
InitMalformed ==
  /\ variant = "enhanced"
  /\ \/ resumeText = Null /\ jobDescription = ScenarioJob
     \/ resumeText = Undefined /\ jobDescription = ScenarioJob
     \/ resumeText = w_React /\ jobDescription = Null
     \/ resumeText = w_React /\ jobDescription = Undefined
     \/ resumeText = w_React /\ jobDescription = [title |-> t_Intern]
     \/ resumeText = w_React
          /\ jobDescription = [title |-> t_Intern, must_have_skills |-> <<React>>]
  /\ resumeData = [skills |-> <<>>]
  /\ providers = <<>>
  /\ InitCall

\* The title is read by the Simple variant alone (jobKeywords), so it varies there only.
InitInputs(variants, skills, titles, words, extra) ==
  /\ variant \in variants
  /\ jobDescription \in
       Jobs(skills, IF variant = "simple" THEN titles ELSE {t_Intern}) \cup {ScenarioJob}
  /\ \E ws \in Resumes(words, extra) :
       /\ resumeText = joinWords(ws)
       /\ resumeData = [skills |-> ws]
  /\ providers \in
       IF variant = "ai"
       THEN {initializeProviders(env) : env \in SUBSET Range(ProviderOrder)}
       ELSE {<<>>}
  /\ InitCall

\* the scoring pipeline, over a small vocabulary
Init ==
  \/ InitInputs({"enhanced", "simple", "ai"}, {React, AWS}, Titles, {w_React, w_built}, {})
  \/ InitMalformed

\* the matcher alone, over a wider vocabulary
InitMatch ==
  InitInputs({"enhanced", "simple"}, {JavaScript, React, AWS}, {t_Intern},
             {w_React, w_typescript, w_cloud}, ScenarioResumes)

----------------------------------------------------------------------------
(* EnhancedAnalysisService.analyzeResumeEnhanced *)

\* line 73: the matcher returns, or throws into the catch of line 83
E_HardMatch ==
  /\ variant = "enhanced" /\ pc = "start"
  /\ IF E_performHardMatchThrows(resumeText, jobDescription)
     THEN /\ pc' = "catch"
          /\ UNCHANGED hardMatchResult
     ELSE /\ hardMatchResult' = E_performHardMatch(resumeText, jobDescription)
          /\ pc' = "semantic"
  /\ UNCHANGED <<calls, appVars, backend, outcomes, variant, resumeText, jobDescription, resumeData, providers,
                 providerIdx, attempts, llmReply, semanticResult, report>>

\* line 227: the fetch is issued and the call is suspended
E_SendRequest ==
  /\ variant = "enhanced" /\ pc = "semantic"
  /\ pc' = "awaiting"
  /\ attempts' = Append(attempts, "gemini")
  /\ UNCHANGED <<calls, appVars, backend, outcomes, variant, resumeText, jobDescription, resumeData, providers,
                 hardMatchResult, providerIdx, llmReply, semanticResult, report>>

\* lines 245-264: the reply (or the failure) arrives and performLLMAnalysis returns;
\* the fetch of line 227 carries no signal and no timer, so nothing else ends the wait
E_ReceiveReply ==
  /\ variant = "enhanced" /\ pc = "awaiting"
  /\ backend = "answers"
  /\ \E reply \in E_Replies :
       /\ llmReply' = reply
       /\ semanticResult' = E_performLLMAnalysis(reply)
  /\ pc' = "combine"
  /\ UNCHANGED <<calls, appVars, backend, outcomes, variant, resumeText, jobDescription, resumeData, providers,
                 hardMatchResult, providerIdx, attempts, report>>

\* lines 83-86: the catch returns getFallbackAnalysis's report; when that call throws
\* in its turn, the promise of analyzeResumeEnhanced is rejected
E_Catch ==
  /\ variant = "enhanced" /\ pc = "catch"
  /\ LET fallback == E_getFallbackAnalysis(resumeText, jobDescription)
     IN  IF fallback = Thrown
         THEN pc' = "rejected" /\ UNCHANGED report
         ELSE pc' = "done" /\ report' = fallback
  /\ UNCHANGED <<calls, appVars, backend, outcomes, variant, resumeText, jobDescription, resumeData,
                 providers, hardMatchResult, providerIdx, attempts, llmReply,
                 semanticResult>>

\* lines 79-81
E_Combine ==
  /\ variant = "enhanced" /\ pc = "combine"
  /\ report' = E_combineAnalysisResults(hardMatchResult, semanticResult)
  /\ pc' = "done"
  /\ UNCHANGED <<calls, appVars, backend, outcomes, variant, resumeText, jobDescription, resumeData, providers,
                 hardMatchResult, providerIdx, attempts, llmReply, semanticResult>>

----------------------------------------------------------------------------
(* SimpleAnalysisService.analyzeResumeSimple *)

\* line 71: the two-second timer fires
S_Delay ==
  /\ variant = "simple" /\ pc = "start"
  /\ pc' = "ready"
  /\ UNCHANGED <<calls, appVars, backend, outcomes, variant, resumeText, jobDescription, resumeData, providers,
                 hardMatchResult, providerIdx, attempts, llmReply, semanticResult, report>>

\* line 74
S_HardMatch ==
  /\ variant = "simple" /\ pc = "ready"
  /\ hardMatchResult' = S_performHardMatch(resumeText, jobDescription)
  /\ pc' = "combine"
  /\ UNCHANGED <<calls, appVars, backend, outcomes, variant, resumeText, jobDescription, resumeData, providers,
                 providerIdx, attempts, llmReply, semanticResult, report>>

\* lines 77-79
S_Generate ==
  /\ variant = "simple" /\ pc = "combine"
  /\ report' = S_generateComprehensiveAnalysis(hardMatchResult, jobDescription, resumeText)
  /\ pc' = "done"
  /\ UNCHANGED <<calls, appVars, backend, outcomes, variant, resumeText, jobDescription, resumeData, providers,
                 hardMatchResult, providerIdx, attempts, llmReply, semanticResult>>

----------------------------------------------------------------------------
(* AIAnalysisService.analyzeResume *)

\* line 529
A_HardMatch ==
  /\ variant = "ai" /\ pc = "start"
  /\ hardMatchResult' = A_performHardMatch(resumeData, jobDescription)
  /\ pc' = "semantic"
  /\ UNCHANGED <<calls, appVars, backend, outcomes, variant, resumeText, jobDescription, resumeData, providers,
                 providerIdx, attempts, llmReply, semanticResult, report>>

\* lines 601-603: the loop calls the next provider and the call is suspended
A_CallProvider ==
  /\ variant = "ai" /\ pc = "semantic"
  /\ providerIdx <= Len(providers)
  /\ attempts' = Append(attempts, providers[providerIdx])
  /\ pc' = "awaiting"
  /\ UNCHANGED <<calls, appVars, backend, outcomes, variant, resumeText, jobDescription, resumeData, providers,
                 hardMatchResult, providerIdx, llmReply, semanticResult, report>>

\* the loop of lines 601-608 without its return: the next provider is called all the same
A_ProviderReply_noReturn ==
  /\ variant = "ai" /\ pc = "awaiting"
  /\ backend = "answers"
  /\ \E reply \in A_Replies :
       /\ llmReply' = reply
       /\ IF A_callThrows(reply)
          THEN /\ outcomes' = Append(outcomes, "failed")
               /\ UNCHANGED semanticResult
          ELSE /\ outcomes' = Append(outcomes, "returned")
               /\ semanticResult' = A_parseAIResponse(reply.text, reply.object)
  /\ providerIdx' = providerIdx + 1
  /\ pc' = "semantic"
  /\ UNCHANGED <<calls, appVars, backend, variant, resumeText, jobDescription, resumeData, providers,
                 hardMatchResult, attempts, report>>

\* lines 603-608: the provider's call throws (continue) or its text is parsed (return);
\* the fetch calls of lines 681-777 carry no signal and no timer
A_ProviderReply ==
  /\ variant = "ai" /\ pc = "awaiting"
  /\ backend = "answers"
  /\ \E reply \in A_Replies :
       /\ llmReply' = reply
       /\ IF A_callThrows(reply)
          THEN /\ providerIdx' = providerIdx + 1
               /\ outcomes' = Append(outcomes, "failed")
               /\ pc' = "semantic"
               /\ UNCHANGED semanticResult
          ELSE /\ semanticResult' = A_parseAIResponse(reply.text, reply.object)
               /\ outcomes' = Append(outcomes, "returned")
               /\ pc' = "combine"
               /\ UNCHANGED providerIdx
  /\ UNCHANGED <<calls, appVars, backend, variant, resumeText, jobDescription, resumeData, providers,
                 hardMatchResult, attempts, report>>

\* lines 611 and 541-545: the loop is exhausted, the error is caught by analyzeResume
A_AllFailed ==
  /\ variant = "ai" /\ pc = "semantic"
  /\ providerIdx > Len(providers)
  /\ report' = A_performBasicAnalysis(resumeData, jobDescription)
  /\ pc' = "done"
  /\ UNCHANGED <<calls, appVars, backend, outcomes, variant, resumeText, jobDescription, resumeData, providers,
                 hardMatchResult, providerIdx, attempts, llmReply, semanticResult>>

\* lines 535-540
A_Combine ==
  /\ variant = "ai" /\ pc = "combine"
  /\ LET finalResult == A_combineAnalysisResults(hardMatchResult, semanticResult)
     IN  report' = [finalResult EXCEPT !.verdict = A_generateVerdict(finalResult.relevanceScore)]
  /\ pc' = "done"
  /\ UNCHANGED <<calls, appVars, backend, outcomes, variant, resumeText, jobDescription, resumeData, providers,
                 hardMatchResult, providerIdx, attempts, llmReply, semanticResult>>

----------------------------------------------------------------------------
(* Specifications *)

Next ==
  \/ E_HardMatch \/ E_SendRequest \/ E_ReceiveReply \/ E_Combine \/ E_Catch
  \/ S_Delay \/ S_HardMatch \/ S_Generate
  \/ A_HardMatch \/ A_CallProvider \/ A_ProviderReply \/ A_AllFailed \/ A_Combine

Spec == Init /\ [][Next]_vars

NextMatch == E_HardMatch \/ S_Delay \/ S_HardMatch

SpecMatch == InitMatch /\ [][NextMatch]_vars

----------------------------------------------------------------------------
(* Properties of the scoring core *)

\* the call has returned its report
Returned == pc = "done"

\* performHardMatch of the Enhanced or Simple variant has returned
Matched == variant \in {"enhanced", "simple"} /\ pc \in {"semantic", "awaiting", "combine", "done"}

HardOf == IF variant = "ai" THEN report.hardMatchScore ELSE report.hard_match_score

SemanticOf == IF variant = "ai" THEN report.semanticMatchScore ELSE report.semantic_match_score

RelevanceOf == IF variant = "ai" THEN report.relevanceScore ELSE report.relevance_score

\* v is the integer n
IsInt(v, n) == v.k = "num" /\ v.t = 10 * n

\* v is an integer within lo..hi
IntWithin(v, lo, hi) == v.k = "num" /\ v.t % 10 = 0 /\ 10 * lo <= v.t /\ v.t <= 10 * hi

\* needle occurs in hay, stated position by position
occursIn(needle, hay) ==
  \E i \in 1..(Len(hay) + 1) :
    \A j \in 1..Len(needle) : i + j - 1 <= Len(hay) /\ hay[i + j - 1] = needle[j]

\* the matching rule of the matcher: the name itself, or a variant listed under it
matchRule(skill) ==
  LET text == toLowerCase(resumeText)
      name == toLowerCase(skill)
  IN  \/ occursIn(name, text)
      \/ /\ name \in DOMAIN skillVariations
         /\ \E v \in Range(skillVariations[name]) : occursIn(toLowerCase(v), text)

MustHave == Range(jobDescription.must_have_skills)

GoodToHave == Range(jobDescription.good_to_have_skills)

MatchedSet == Range(hardMatchResult.matched_skills)

MissingSet == Range(hardMatchResult.missing_skills)

CriticalSet == Range(hardMatchResult.critical_missing_skills)

(* C1: in every returned report, of every variant and on the normal and the  *)
(* fallback paths, the relevance score is 0.4 * hard + 0.6 * semantic rounded *)
(* to the nearest integer (halves up), with hard and semantic read from the   *)
(* same report; when the stored semantic score is no number, neither is the   *)
(* relevance score.                                                           *)
C1_RelevanceIsWeightedSum ==
  Returned =>
    IF SemanticOf.k = "num"
    THEN \E r \in -200..300 :
           /\ IsInt(RelevanceOf, r)
           /\ 100 * r - 50 <= 40 * HardOf + 6 * SemanticOf.t
           /\ 40 * HardOf + 6 * SemanticOf.t < 100 * r + 50
    ELSE RelevanceOf.k = "NaN"

\* C1 witness: hard 50 and semantic 72.5 give 63.5, reported as 64
C1_Witness ==
  /\ Returned /\ variant = "enhanced"
  /\ report.hard_match_score = 50
  /\ report.semantic_match_score = Tenths(725)
  /\ report.relevance_score = Num(64)

\* both verdict functions, on every integer score 0..100
C2_EveryScore ==
  \A n \in 0..100 :
    \A v \in {E_verdict(Num(n)), A_generateVerdict(Num(n))} :
      /\ v \in {"High", "Medium", "Low"}
      /\ (v = "High") = (n >= 80)
      /\ (v = "Medium") = (50 <= n /\ n < 80)
      /\ (v = "Low") = (n < 50)

(* C2: the verdict of the Enhanced and the AI variant is High from 80 up,    *)
(* Medium from 50 to 79 and Low below 50, for every integer score 0..100 and *)
(* in every returned report whose relevance score is such an integer.        *)
C2_VerdictBuckets ==
  /\ C2_EveryScore
  /\ (Returned /\ variant \in {"enhanced", "ai"} /\ IntWithin(RelevanceOf, 0, 100)) =>
       LET n == RelevanceOf.t \div 10
       IN  /\ (report.verdict = "High") = (n >= 80)
           /\ (report.verdict = "Medium") = (50 <= n /\ n < 80)
           /\ (report.verdict = "Low") = (n < 50)

\* C2 witness: a report at the lower edge of Medium
C2_Witness ==
  /\ Returned /\ variant = "enhanced"
  /\ report.relevance_score = Num(50)
  /\ report.verdict = "Medium"

(* C3: for every relevance score the Simple variant reports the verdict the  *)
(* Enhanced variant and SCORE_THRESHOLDS (HIGH 80, MEDIUM 50) give it.       *)
C3_SameVerdictAcrossVariants ==
  (Returned /\ variant = "simple") =>
    /\ report.verdict = E_verdict(report.relevance_score)
    /\ (report.verdict = "High") = atLeast(report.relevance_score, SCORE_THRESHOLDS_HIGH)
    /\ (report.verdict = "Low") = ~atLeast(report.relevance_score, SCORE_THRESHOLDS_MEDIUM)

(* C4: in every returned report of every variant the hard, semantic and      *)
(* relevance scores are integers within 0..100, whatever the LLM replied.    *)
C4_ScoresAreIntegersInRange ==
  Returned =>
    /\ HardOf \in 0..100
    /\ IntWithin(SemanticOf, 0, 100)
    /\ IntWithin(RelevanceOf, 0, 100)

(* C5: the matched and the missing skills returned by performHardMatch,     *)
(* taken as sets, partition the job's skills: together they are the union of *)
(* the must-have and the good-to-have skills, and no skill is in both.       *)
C5_MatchedMissingPartition ==
  Matched =>
    /\ MatchedSet \cup MissingSet = MustHave \cup GoodToHave
    /\ MatchedSet \cap MissingSet = {}

\* C5 witness: a skill listed twice and in both lists, with both result sets non-empty
C5_Witness ==
  /\ Matched /\ variant = "enhanced"
  /\ MustHave \cap GoodToHave # {}
  /\ Cardinality(MustHave) < Len(jobDescription.must_have_skills)
  /\ MatchedSet # {} /\ MissingSet # {}

(* C6: the critical missing skills are exactly the missing skills that are   *)
(* must-have skills; a skill that is only good-to-have is never critical and *)
(* no matched skill is critical.                                             *)
C6_CriticalIsMissingMustHave ==
  Matched =>
    /\ CriticalSet = MissingSet \cap MustHave
    /\ CriticalSet \cap (GoodToHave \ MustHave) = {}
    /\ CriticalSet \cap MatchedSet = {}

\* C6 witness: a missing must-have skill beside a missing skill that is only good-to-have
C6_Witness ==
  /\ Matched
  /\ CriticalSet # {}
  /\ (MissingSet \cap GoodToHave) \ MustHave # {}

(* C7: when the job lists at least one skill, the hard match score is        *)
(* 100 * |matched| / |must-have \cup good-to-have| rounded to the nearest    *)
(* integer, both counted as sets.                                            *)
C7_ScoreOverSkillSets ==
  (Matched /\ MustHave \cup GoodToHave # {}) =>
    LET m == Cardinality(MatchedSet)
        u == Cardinality(MustHave \cup GoodToHave)
        score == hardMatchResult.hard_match_score
    IN  /\ 2 * u * score - u <= 200 * m
        /\ 200 * m < 2 * u * score + u

(* C8: a skill is in matched exactly when its lower-cased name occurs in the *)
(* lower-cased resume text, or the name is a key of the variation table and  *)
(* one of its variants occurs there; every other skill is in missing; the    *)
(* rule is the same for must-have and good-to-have skills.                   *)
C8_MatchRule ==
  Matched =>
    \A skill \in MustHave \cup GoodToHave :
      /\ (skill \in MatchedSet) = matchRule(skill)
      /\ (skill \in MissingSet) = ~matchRule(skill)

\* C8 witness: AWS matched through its variant "cloud" only, beside a missing skill
C8_Witness ==
  /\ Matched /\ variant = "simple"
  /\ AWS \in MatchedSet
  /\ ~occursIn(toLowerCase(AWS), toLowerCase(resumeText))
  /\ MissingSet # {}

\* the resume of the worked example: "React" and "typescript", none of the other names
ScenarioResume ==
  LET text == toLowerCase(resumeText)
  IN  /\ occursIn(toLowerCase(React), text)
      /\ occursIn(toLowerCase(TypeScript), text)
      /\ ~occursIn(toLowerCase(JavaScript), text)
      /\ ~occursIn(toLowerCase(NodeJs), text)
      /\ ~occursIn(toLowerCase(AWS), text)

(* C9 as stated: for the worked example performHardMatch returns matched     *)
(* {React, TypeScript}, missing {JavaScript, Node.js, AWS}, critical missing *)
(* {JavaScript, Node.js} and the score 40.                                   *)
C9_ScenarioAsStated ==
  (Matched /\ jobDescription = ScenarioJob /\ ScenarioResume) =>
    /\ MatchedSet = {React, TypeScript}
    /\ MissingSet = {JavaScript, NodeJs, AWS}
    /\ CriticalSet = {JavaScript, NodeJs}
    /\ hardMatchResult.hard_match_score = 40

(* C9 amended: for the worked example, and a resume text that holds no       *)
(* variant the table lists for AWS, performHardMatch returns matched         *)
(* {JavaScript, React, TypeScript} (JavaScript through its variant "react"), *)
(* missing {Node.js, AWS}, critical missing {Node.js} and the score 60.      *)
C9_ScenarioAmended ==
  (/\ Matched /\ jobDescription = ScenarioJob /\ ScenarioResume
   /\ \A v \in Range(skillVariations[toLowerCase(AWS)]) :
        ~occursIn(v, toLowerCase(resumeText))) =>
    /\ MatchedSet = {JavaScript, React, TypeScript}
    /\ MissingSet = {NodeJs, AWS}
    /\ CriticalSet = {NodeJs}
    /\ hardMatchResult.hard_match_score = 60

\* C9 witness: the worked example has been matched
C9_Witness ==
  /\ Matched /\ jobDescription = ScenarioJob
  /\ resumeText = joinWords(<<w_React, w_typescript>>)
  /\ hardMatchResult.hard_match_score = 60

\* the Semantic Evaluator failed: transport, status, structure, no span, or a bad span
EvaluatorFailed ==
  \/ llmReply.status \in {"network_error", "not_ok"}
  \/ llmReply.body \in {"not_json", "no_candidates"}
  \/ llmReply.text \in BadTexts

(* C10: when the Semantic Evaluator fails in any way, analyzeResumeEnhanced  *)
(* goes on to return a report: its semantic score is 65, its qualitative     *)
(* lists are the non-empty fallback lists and its hard-match fields are the  *)
(* matcher's.                                                                *)
C10_FallbackOnEvaluatorFailure ==
  (variant = "enhanced" /\ EvaluatorFailed) =>
    /\ pc \in {"combine", "done"}
    /\ pc = "combine" => ENABLED E_Combine
    /\ pc = "done" =>
         /\ report.semantic_match_score = Num(65)
         /\ report.strengths =
              <<"Relevant technical background", "Good educational foundation">>
         /\ report.weaknesses =
              <<"Limited industry experience", "Could improve project portfolio">>
         /\ Len(report.improvement_suggestions) = 4
         /\ report.hard_match_score = hardMatchResult.hard_match_score
         /\ report.matched_skills = hardMatchResult.matched_skills
         /\ report.missing_skills = hardMatchResult.missing_skills
         /\ report.critical_missing_skills = hardMatchResult.critical_missing_skills
         /\ C8_MatchRule

\* C10 witness: a reply whose span is no JSON, answered with the fallback values
C10_Witness ==
  /\ Returned /\ variant = "enhanced"
  /\ llmReply.status = "ok" /\ llmReply.text = <<"{", "prose", "}">>
  /\ report.semantic_match_score = Num(65)
  /\ report.matched_skills # <<>>

----------------------------------------------------------------------------
(* Properties of the fallback paths *)

\* every configured provider was called and threw (or none was configured)
AllProvidersFailed ==
  /\ variant = "ai" /\ Returned
  /\ semanticResult = NoResult
  /\ attempts = providers

\* the report of the fallback path for a reference input: no resume skill, the example job
C11_ReferenceReport == A_performBasicAnalysis([skills |-> <<>>], ScenarioJob)

(* C11: when every configured provider has failed, or none is configured,    *)
(* AIAnalysisService.analyzeResume returns a report whose semantic score is  *)
(* one constant, the same for every resume and job (here: the one reported   *)
(* for a reference resume and job), whatever the hard match score is.        *)
C11_FallbackSemanticIsConstant ==
  AllProvidersFailed =>
    report.semanticMatchScore = C11_ReferenceReport.semanticMatchScore

(* C12: a call of analyzeResumeEnhanced or AIAnalysisService.analyzeResume    *)
(* with well-formed input returns a report also when the backend never        *)
(* answers: a call suspended at its network call can always take a further    *)
(* step (a timeout ends the wait and fallback values are used), so that no    *)
(* call is left waiting for ever.                                             *)
C12_CallReturnsWithoutBackend ==
  (variant \in {"enhanced", "ai"} /\ pc = "awaiting") => ENABLED Next

----------------------------------------------------------------------------
(* Properties of the provider loop *)

\* the position of a provider name in the order openai, claude, gemini
C13_Rank(name) == CHOOSE i \in 1..3 : <<"openai", "claude", "gemini">>[i] = name

A_FallbackUsed ==
  /\ variant = "ai"
  /\ \/ semanticResult = A_parseFallback
     \/ Returned /\ semanticResult = NoResult

(* C14: AIAnalysisService uses fallback semantic values only when every       *)
(* configured provider has been attempted: a provider whose call fails or     *)
(* whose reply cannot be extracted or decoded as JSON counts as failed, and   *)
(* the next provider is tried first.                                          *)
C14_FallbackAfterAllProviders ==
  A_FallbackUsed => attempts = providers

----------------------------------------------------------------------------
(* Properties at the edges of the input *)

\* the job names no skill at all
EmptySkillLists ==
  jobDescription.must_have_skills = <<>> /\ jobDescription.good_to_have_skills = <<>>

\* v is a number of [lo, hi], integer or not
Within(v, lo, hi) == v.k = "num" /\ 10 * lo <= v.t /\ v.t <= 10 * hi

\* performHardMatch on a job without skills: nothing matched or missing, the default score
C15_HardMatchOnEmptyLists ==
  (hardMatchResult # NoResult /\ EmptySkillLists) =>
    CASE variant = "enhanced" ->
           hardMatchResult = [hard_match_score |-> 0, matched_skills |-> <<>>,
                              missing_skills |-> <<>>, critical_missing_skills |-> <<>>]
      [] variant = "simple" ->
           hardMatchResult = [hard_match_score |-> 50, matched_skills |-> <<>>,
                              missing_skills |-> <<>>, critical_missing_skills |-> <<>>]
      [] variant = "ai" ->
           hardMatchResult = [hardMatchScore |-> 0, matchedSkills |-> <<>>,
                              missingSkills |-> <<>>]

(* C15: when the job's two skill lists are empty, performHardMatch returns    *)
(* empty matched, missing and critical-missing lists and the variant's        *)
(* default score (0 Enhanced and AI, 50 Simple), and the scorer returns a     *)
(* report whose hard, semantic and relevance scores all lie in [0, 100].      *)
C15_EmptyListsScoredInRange ==
  /\ C15_HardMatchOnEmptyLists
  /\ (Returned /\ EmptySkillLists) =>
       /\ HardOf \in 0..100
       /\ Within(SemanticOf, 0, 100)
       /\ Within(RelevanceOf, 0, 100)

\* the arguments of the call make the matcher throw
Malformed == variant = "enhanced" /\ E_performHardMatchThrows(resumeText, jobDescription)

(* C16: a call of analyzeResumeEnhanced with malformed input (the resume text *)
(* null or undefined, the job null or undefined or without its skill lists)   *)
(* ends in an error raised to the caller: it returns no report, never calls   *)
(* the semantic backend, and from each of its positions before the rejection  *)
(* its next step is enabled.                                                  *)
C16_MalformedInputIsRejected ==
  Malformed =>
    /\ pc \in {"start", "catch", "rejected"}
    /\ report = NoResult
    /\ attempts = <<>> /\ llmReply = NoReply /\ semanticResult = NoResult
    /\ pc = "start" => ENABLED E_HardMatch
    /\ pc = "catch" => ENABLED E_Catch

\* C16 witness: the call with a null resume text has been rejected
C16_Witness ==
  /\ variant = "enhanced" /\ pc = "rejected"
  /\ resumeText = Null
  /\ report = NoResult /\ attempts = <<>>

----------------------------------------------------------------------------
(* Concurrent calls of one scorer                                           *)
(*                                                                          *)
(* JavaScript runs a call from one await to the next without interruption,  *)
(* so a call takes its steps at its awaits: it begins (and runs up to its   *)
(* first network call), and it resumes each time a network call settles.    *)
(* The arguments and the locals of a call are its own (calls[i]); the class *)
(* state is EnhancedAnalysisService.geminiApiKey, a constant (line 62), and *)
(* the providers of the AIAnalysisService singleton (part_005:476-487).     *)

\* the scoring pipeline is not running on its own
IdlePipeline ==
  /\ variant = "none" /\ pc = "idle"
  /\ resumeText = <<>> /\ jobDescription = NoResult /\ resumeData = NoResult
  /\ hardMatchResult = NoResult /\ providerIdx = 1 /\ attempts = <<>>
  /\ llmReply = NoReply /\ semanticResult = NoResult /\ report = NoResult
  /\ backend = "answers" /\ outcomes = <<>>

CallIds == {1, 2}

\* a call that has not begun
NewCall(v, ws, job) ==
  [variant |-> v, resumeText |-> joinWords(ws), resumeData |-> [skills |-> ws],
   jobDescription |-> job, pc |-> "start", hardMatchResult |-> NoResult,
   providerIdx |-> 1, replies |-> <<>>, report |-> NoResult]

\* two calls of the same scorer, each with its own resume and job
InitConc ==
  /\ IdlePipeline /\ IdleApp
  /\ \E v \in {"enhanced", "ai"} :
       /\ providers \in
            IF v = "ai"
            THEN {initializeProviders(env) : env \in {{}, {"openai", "gemini"}}}
            ELSE {<<>>}
       /\ calls \in
            [CallIds ->
               {NewCall(v, ws, job) :
                  ws \in {<<>>, <<w_React>>},
                  job \in {ScenarioJob,
                           [title |-> t_Intern, must_have_skills |-> <<React, AWS>>,
                            good_to_have_skills |-> <<>>]}}]

\* the replies a suspended call may be resumed with
ConcReplies(v) ==
  IF v = "enhanced"
  THEN {r \in E_Replies :
          \/ r.status = "network_error"
          \/ /\ r.status = "ok" /\ r.body = "text" /\ r.text = <<"{", "fields", "}">>
             /\ r.object \in {E_Object(Num(50), TRUE), E_Object(Tenths(725), TRUE)}}
  ELSE {r \in A_Replies :
          \/ r.status = "not_ok"
          \/ r.status = "ok" /\ r.body = "text" /\ r.text = <<"prose">>
          \/ r.object = A_Object(Tenths(725), TRUE)}

\* the hard match result every call reads is the one a single static field holds
localHardMatch_static(cs, i) ==
  IF cs[1].hardMatchResult # NoResult THEN cs[1].hardMatchResult ELSE cs[i].hardMatchResult

\* const hardMatchResult (line 73; part_005:529) is a local of the call that reads it
localHardMatch(cs, i) == cs[i].hardMatchResult

\* enhancedAnalysisService.ts lines 73-76 and 227: the matcher runs and the fetch is issued
CE_Begin(i) ==
  /\ calls[i].variant = "enhanced" /\ calls[i].pc = "start"
  /\ calls' = [calls EXCEPT
       ![i].hardMatchResult = E_performHardMatch(calls[i].resumeText, calls[i].jobDescription),
       ![i].pc = "awaiting"]
  /\ UNCHANGED <<appVars, variant, resumeText, jobDescription, resumeData, providers, pc,
                 hardMatchResult, providerIdx, attempts, llmReply, semanticResult, report,
                 backend, outcomes>>

\* lines 245-264 and 79-81: the fetch settles, the reply is parsed and combined
CE_Resume(i) ==
  /\ calls[i].variant = "enhanced" /\ calls[i].pc = "awaiting"
  /\ \E reply \in ConcReplies("enhanced") :
       calls' = [calls EXCEPT
         ![i].replies = Append(@, reply),
         ![i].report = E_combineAnalysisResults(localHardMatch(calls, i),
                                                E_performLLMAnalysis(reply)),
         ![i].pc = "done"]
  /\ UNCHANGED <<appVars, variant, resumeText, jobDescription, resumeData, providers, pc,
                 hardMatchResult, providerIdx, attempts, llmReply, semanticResult, report,
                 backend, outcomes>>

\* part_005 lines 529-532 and 601-603: the matcher runs and the first provider is
\* called; without a provider the loop is empty and the catch of line 541 answers
CA_Begin(i) ==
  /\ calls[i].variant = "ai" /\ calls[i].pc = "start"
  /\ calls' = [calls EXCEPT
       ![i].hardMatchResult = A_performHardMatch(calls[i].resumeData, calls[i].jobDescription),
       ![i].pc = IF providers = <<>> THEN "done" ELSE "awaiting",
       ![i].report = IF providers = <<>>
                     THEN A_performBasicAnalysis(calls[i].resumeData, calls[i].jobDescription)
                     ELSE NoResult]
  /\ UNCHANGED <<appVars, variant, resumeText, jobDescription, resumeData, providers, pc,
                 hardMatchResult, providerIdx, attempts, llmReply, semanticResult, report,
                 backend, outcomes>>

\* part_005 lines 603-611 and 535-545: the provider's call settles; when it threw the
\* next provider is called, or the catch answers; otherwise the text is parsed and combined
CA_Resume(i) ==
  /\ calls[i].variant = "ai" /\ calls[i].pc = "awaiting"
  /\ \E reply \in ConcReplies("ai") :
       LET c == calls[i]
           finalResult ==
             A_combineAnalysisResults(localHardMatch(calls, i),
                                      A_parseAIResponse(reply.text, reply.object))
       IN  calls' = [calls EXCEPT
             ![i].replies = Append(@, reply),
             ![i].providerIdx = IF A_callThrows(reply) THEN @ + 1 ELSE @,
             ![i].pc = IF A_callThrows(reply) /\ c.providerIdx < Len(providers)
                       THEN "awaiting" ELSE "done",
             ![i].report =
               IF ~A_callThrows(reply)
               THEN [finalResult EXCEPT
                       !.verdict = A_generateVerdict(finalResult.relevanceScore)]
               ELSE IF c.providerIdx < Len(providers) THEN NoResult
               ELSE A_performBasicAnalysis(c.resumeData, c.jobDescription)]
  /\ UNCHANGED <<appVars, variant, resumeText, jobDescription, resumeData, providers, pc,
                 hardMatchResult, providerIdx, attempts, llmReply, semanticResult, report,
                 backend, outcomes>>

NextConc == \E i \in CallIds : CE_Begin(i) \/ CE_Resume(i) \/ CA_Begin(i) \/ CA_Resume(i)

SpecConc == InitConc /\ [][NextConc]_vars

----------------------------------------------------------------------------
(* DirectDbService.uploadAndAnalyzeResume *)

\* lines 21-55; description, experience_required and education_required are read by no
\* operation of the model and are left out
getJobDescriptions ==
  <<[id |-> 1,
     title |-> <<"S", "e", "n", "i", "o", "r", " ", "S", "o", "f", "t", "w", "a", "r", "e", " ", "E", "n", "g", "i", "n", "e", "e", "r">>,
     company |-> "TechCorp Solutions",
     must_have_skills |->
       <<<<"J", "a", "v", "a", "S", "c", "r", "i", "p", "t">>,
         <<"R", "e", "a", "c", "t">>,
         <<"N", "o", "d", "e", ".", "j", "s">>,
         <<"S", "Q", "L">>,
         <<"G", "i", "t">>>>,
     good_to_have_skills |->
       <<<<"T", "y", "p", "e", "S", "c", "r", "i", "p", "t">>,
         <<"A", "W", "S">>,
         <<"D", "o", "c", "k", "e", "r">>,
         <<"M", "o", "n", "g", "o", "D", "B">>>>],
    [id |-> 2,
     title |-> <<"F", "r", "o", "n", "t", "e", "n", "d", " ", "D", "e", "v", "e", "l", "o", "p", "e", "r">>,
     company |-> "Digital Innovations Ltd",
     must_have_skills |->
       <<<<"H", "T", "M", "L">>,
         <<"C", "S", "S">>,
         <<"J", "a", "v", "a", "S", "c", "r", "i", "p", "t">>,
         <<"R", "e", "a", "c", "t">>,
         <<"R", "e", "s", "p", "o", "n", "s", "i", "v", "e", " ", "D", "e", "s", "i", "g", "n">>>>,
     good_to_have_skills |->
       <<<<"V", "u", "e", ".", "j", "s">>,
         <<"S", "a", "s", "s">>,
         <<"W", "e", "b", "p", "a", "c", "k">>,
         <<"F", "i", "g", "m", "a">>,
         <<"T", "y", "p", "e", "S", "c", "r", "i", "p", "t">>>>],
    [id |-> 3,
     title |-> <<"D", "a", "t", "a", " ", "S", "c", "i", "e", "n", "t", "i", "s", "t">>,
     company |-> "AI Analytics Inc",
     must_have_skills |->
       <<<<"P", "y", "t", "h", "o", "n">>,
         <<"M", "a", "c", "h", "i", "n", "e", " ", "L", "e", "a", "r", "n", "i", "n", "g">>,
         <<"S", "t", "a", "t", "i", "s", "t", "i", "c", "s">>,
         <<"S", "Q", "L">>,
         <<"P", "a", "n", "d", "a", "s">>>>,
     good_to_have_skills |->
       <<<<"T", "e", "n", "s", "o", "r", "F", "l", "o", "w">>,
         <<"P", "y", "T", "o", "r", "c", "h">>,
         <<"R">>,
         <<"S", "p", "a", "r", "k">>,
         <<"A", "W", "S">>>>]>>

\* lines 106-242: the three sample resume texts
sampleResumeTexts ==
  <<<<
    "J", "o", "h", "n", " ", "D", "o", "e", "\n", "S", "o", "f", "t", "w", "a", "r", "e", " ",
    "E", "n", "g", "i", "n", "e", "e", "r", "\n", "E", "m", "a", "i", "l", ":", " ", "j", "o",
    "h", "n", ".", "d", "o", "e", "@", "e", "m", "a", "i", "l", ".", "c", "o", "m", "\n", "P",
    "h", "o", "n", "e", ":", " ", "+", "1", "-", "2", "3", "4", "-", "5", "6", "7", "-", "8",
    "9", "0", "0", "\n", "\n", "E", "X", "P", "E", "R", "I", "E", "N", "C", "E", ":", "\n",
    "S", "o", "f", "t", "w", "a", "r", "e", " ", "D", "e", "v", "e", "l", "o", "p", "e", "r",
    " ", "a", "t", " ", "T", "e", "c", "h", "C", "o", "r", "p", " ", "(", "2", "0", "2", "2",
    "-", "2", "0", "2", "4", ")", "\n", "-", " ", "D", "e", "v", "e", "l", "o", "p", "e", "d",
    " ", "w", "e", "b", " ", "a", "p", "p", "l", "i", "c", "a", "t", "i", "o", "n", "s", " ",
    "u", "s", "i", "n", "g", " ", "R", "e", "a", "c", "t", ",", " ", "N", "o", "d", "e", ".",
    "j", "s", ",", " ", "a", "n", "d", " ", "M", "o", "n", "g", "o", "D", "B", "\n", "-", " ",
    "I", "m", "p", "l", "e", "m", "e", "n", "t", "e", "d", " ", "R", "E", "S", "T", " ", "A",
    "P", "I", "s", " ", "a", "n", "d", " ", "m", "i", "c", "r", "o", "s", "e", "r", "v", "i",
    "c", "e", "s", " ", "a", "r", "c", "h", "i", "t", "e", "c", "t", "u", "r", "e", "\n", "-",
    " ", "C", "o", "l", "l", "a", "b", "o", "r", "a", "t", "e", "d", " ", "w", "i", "t", "h",
    " ", "c", "r", "o", "s", "s", "-", "f", "u", "n", "c", "t", "i", "o", "n", "a", "l", " ",
    "t", "e", "a", "m", "s", " ", "u", "s", "i", "n", "g", " ", "A", "g", "i", "l", "e", " ",
    "m", "e", "t", "h", "o", "d", "o", "l", "o", "g", "y", "\n", "-", " ", "I", "m", "p", "r",
    "o", "v", "e", "d", " ", "a", "p", "p", "l", "i", "c", "a", "t", "i", "o", "n", " ", "p",
    "e", "r", "f", "o", "r", "m", "a", "n", "c", "e", " ", "b", "y", " ", "3", "0", "%", "\n",
    "\n", "J", "u", "n", "i", "o", "r", " ", "D", "e", "v", "e", "l", "o", "p", "e", "r", " ",
    "a", "t", " ", "S", "t", "a", "r", "t", "u", "p", "X", "Y", "Z", " ", "(", "2", "0", "2",
    "1", "-", "2", "0", "2", "2", ")", "\n", "-", " ", "B", "u", "i", "l", "t", " ", "r", "e",
    "s", "p", "o", "n", "s", "i", "v", "e", " ", "w", "e", "b", " ", "i", "n", "t", "e", "r",
    "f", "a", "c", "e", "s", " ", "u", "s", "i", "n", "g", " ", "H", "T", "M", "L", ",", " ",
    "C", "S", "S", ",", " ", "J", "a", "v", "a", "S", "c", "r", "i", "p", "t", "\n", "-", " ",
    "W", "o", "r", "k", "e", "d", " ", "w", "i", "t", "h", " ", "G", "i", "t", " ", "v", "e",
    "r", "s", "i", "o", "n", " ", "c", "o", "n", "t", "r", "o", "l", " ", "a", "n", "d", " ",
    "C", "I", "/", "C", "D", " ", "p", "i", "p", "e", "l", "i", "n", "e", "s", "\n", "-", " ",
    "P", "a", "r", "t", "i", "c", "i", "p", "a", "t", "e", "d", " ", "i", "n", " ", "c", "o",
    "d", "e", " ", "r", "e", "v", "i", "e", "w", "s", " ", "a", "n", "d", " ", "t", "e", "s",
    "t", "i", "n", "g", " ", "p", "r", "o", "c", "e", "s", "s", "e", "s", "\n", "\n", "E", "D",
    "U", "C", "A", "T", "I", "O", "N", ":", "\n", "B", "a", "c", "h", "e", "l", "o", "r", " ",
    "o", "f", " ", "C", "o", "m", "p", "u", "t", "e", "r", " ", "S", "c", "i", "e", "n", "c",
    "e", ",", " ", "S", "t", "a", "t", "e", " ", "U", "n", "i", "v", "e", "r", "s", "i", "t",
    "y", " ", "(", "2", "0", "1", "7", "-", "2", "0", "2", "1", ")", "\n", "-", " ", "R", "e",
    "l", "e", "v", "a", "n", "t", " ", "c", "o", "u", "r", "s", "e", "w", "o", "r", "k", ":",
    " ", "D", "a", "t", "a", " ", "S", "t", "r", "u", "c", "t", "u", "r", "e", "s", ",", " ",
    "A", "l", "g", "o", "r", "i", "t", "h", "m", "s", ",", " ", "D", "a", "t", "a", "b", "a",
    "s", "e", " ", "S", "y", "s", "t", "e", "m", "s", "\n", "-", " ", "G", "P", "A", ":", " ",
    "3", ".", "7", "/", "4", ".", "0", "\n", "\n", "S", "K", "I", "L", "L", "S", ":", "\n",
    "P", "r", "o", "g", "r", "a", "m", "m", "i", "n", "g", " ", "L", "a", "n", "g", "u", "a",
    "g", "e", "s", ":", " ", "J", "a", "v", "a", "S", "c", "r", "i", "p", "t", ",", " ", "P",
    "y", "t", "h", "o", "n", ",", " ", "J", "a", "v", "a", "\n", "F", "r", "o", "n", "t", "e",
    "n", "d", ":", " ", "R", "e", "a", "c", "t", ",", " ", "H", "T", "M", "L", ",", " ", "C",
    "S", "S", ",", " ", "B", "o", "o", "t", "s", "t", "r", "a", "p", "\n", "B", "a", "c", "k",
    "e", "n", "d", ":", " ", "N", "o", "d", "e", ".", "j", "s", ",", " ", "E", "x", "p", "r",
    "e", "s", "s", ".", "j", "s", ",", " ", "R", "E", "S", "T", "f", "u", "l", " ", "A", "P",
    "I", "s", "\n", "D", "a", "t", "a", "b", "a", "s", "e", "s", ":", " ", "M", "o", "n", "g",
    "o", "D", "B", ",", " ", "M", "y", "S", "Q", "L", ",", " ", "P", "o", "s", "t", "g", "r",
    "e", "S", "Q", "L", "\n", "T", "o", "o", "l", "s", ":", " ", "G", "i", "t", ",", " ", "D",
    "o", "c", "k", "e", "r", ",", " ", "V", "S", " ", "C", "o", "d", "e", ",", " ", "P", "o",
    "s", "t", "m", "a", "n", "\n", "M", "e", "t", "h", "o", "d", "o", "l", "o", "g", "i", "e",
    "s", ":", " ", "A", "g", "i", "l", "e", ",", " ", "S", "c", "r", "u", "m", "\n", "\n", "P",
    "R", "O", "J", "E", "C", "T", "S", ":", "\n", "E", "-", "c", "o", "m", "m", "e", "r", "c",
    "e", " ", "P", "l", "a", "t", "f", "o", "r", "m", " ", "(", "2", "0", "2", "3", ")", "\n",
    "-", " ", "F", "u", "l", "l", "-", "s", "t", "a", "c", "k", " ", "w", "e", "b", " ", "a",
    "p", "p", "l", "i", "c", "a", "t", "i", "o", "n", " ", "w", "i", "t", "h", " ", "R", "e",
    "a", "c", "t", " ", "f", "r", "o", "n", "t", "e", "n", "d", " ", "a", "n", "d", " ", "N",
    "o", "d", "e", ".", "j", "s", " ", "b", "a", "c", "k", "e", "n", "d", "\n", "-", " ", "I",
    "m", "p", "l", "e", "m", "e", "n", "t", "e", "d", " ", "u", "s", "e", "r", " ", "a", "u",
    "t", "h", "e", "n", "t", "i", "c", "a", "t", "i", "o", "n", ",", " ", "p", "a", "y", "m",
    "e", "n", "t", " ", "p", "r", "o", "c", "e", "s", "s", "i", "n", "g", ",", " ", "a", "n",
    "d", " ", "i", "n", "v", "e", "n", "t", "o", "r", "y", " ", "m", "a", "n", "a", "g", "e",
    "m", "e", "n", "t", "\n", "-", " ", "T", "e", "c", "h", "n", "o", "l", "o", "g", "i", "e",
    "s", ":", " ", "R", "e", "a", "c", "t", ",", " ", "N", "o", "d", "e", ".", "j", "s", ",",
    " ", "M", "o", "n", "g", "o", "D", "B", ",", " ", "S", "t", "r", "i", "p", "e", " ", "A",
    "P", "I", "\n", "\n", "T", "a", "s", "k", " ", "M", "a", "n", "a", "g", "e", "m", "e", "n",
    "t", " ", "A", "p", "p", " ", "(", "2", "0", "2", "2", ")", "\n", "-", " ", "R", "e", "s",
    "p", "o", "n", "s", "i", "v", "e", " ", "w", "e", "b", " ", "a", "p", "p", "l", "i", "c",
    "a", "t", "i", "o", "n", " ", "f", "o", "r", " ", "t", "e", "a", "m", " ", "c", "o", "l",
    "l", "a", "b", "o", "r", "a", "t", "i", "o", "n", "\n", "-", " ", "F", "e", "a", "t", "u",
    "r", "e", "s", ":", " ", "R", "e", "a", "l", "-", "t", "i", "m", "e", " ", "u", "p", "d",
    "a", "t", "e", "s", ",", " ", "f", "i", "l", "e", " ", "s", "h", "a", "r", "i", "n", "g",
    ",", " ", "p", "r", "o", "g", "r", "e", "s", "s", " ", "t", "r", "a", "c", "k", "i", "n",
    "g", "\n", "-", " ", "T", "e", "c", "h", "n", "o", "l", "o", "g", "i", "e", "s", ":", " ",
    "R", "e", "a", "c", "t", ",", " ", "N", "o", "d", "e", ".", "j", "s", ",", " ", "M", "a",
    "t", "e", "r", "i", "a", "l", "-", "U", "I">>,
   <<
    "S", "a", "r", "a", "h", " ", "J", "o", "h", "n", "s", "o", "n", "\n", "F", "r", "o", "n",
    "t", "e", "n", "d", " ", "D", "e", "v", "e", "l", "o", "p", "e", "r", "\n", "E", "m", "a",
    "i", "l", ":", " ", "s", "a", "r", "a", "h", ".", "j", "o", "h", "n", "s", "o", "n", "@",
    "e", "m", "a", "i", "l", ".", "c", "o", "m", "\n", "P", "h", "o", "n", "e", ":", " ", "+",
    "1", "-", "9", "8", "7", "-", "6", "5", "4", "-", "3", "2", "1", "0", "\n", "\n", "P", "R",
    "O", "F", "E", "S", "S", "I", "O", "N", "A", "L", " ", "S", "U", "M", "M", "A", "R", "Y",
    ":", "\n", "C", "r", "e", "a", "t", "i", "v", "e", " ", "a", "n", "d", " ", "d", "e", "t",
    "a", "i", "l", "-", "o", "r", "i", "e", "n", "t", "e", "d", " ", "F", "r", "o", "n", "t",
    "e", "n", "d", " ", "D", "e", "v", "e", "l", "o", "p", "e", "r", " ", "w", "i", "t", "h",
    " ", "3", "+", " ", "y", "e", "a", "r", "s", " ", "o", "f", " ", "e", "x", "p", "e", "r",
    "i", "e", "n", "c", "e", " ", "i", "n", " ", "b", "u", "i", "l", "d", "i", "n", "g", " ",
    "r", "e", "s", "p", "o", "n", "s", "i", "v", "e", " ", "w", "e", "b", " ", "a", "p", "p",
    "l", "i", "c", "a", "t", "i", "o", "n", "s", ".", " ", "P", "a", "s", "s", "i", "o", "n",
    "a", "t", "e", " ", "a", "b", "o", "u", "t", " ", "u", "s", "e", "r", " ", "e", "x", "p",
    "e", "r", "i", "e", "n", "c", "e", " ", "a", "n", "d", " ", "m", "o", "d", "e", "r", "n",
    " ", "w", "e", "b", " ", "t", "e", "c", "h", "n", "o", "l", "o", "g", "i", "e", "s", ".",
    "\n", "\n", "E", "X", "P", "E", "R", "I", "E", "N", "C", "E", ":", "\n", "S", "e", "n",
    "i", "o", "r", " ", "F", "r", "o", "n", "t", "e", "n", "d", " ", "D", "e", "v", "e", "l",
    "o", "p", "e", "r", " ", "a", "t", " ", "D", "e", "s", "i", "g", "n", "T", "e", "c", "h",
    " ", "(", "2", "0", "2", "2", "-", "P", "r", "e", "s", "e", "n", "t", ")", "\n", "-", " ",
    "L", "e", "a", "d", " ", "f", "r", "o", "n", "t", "e", "n", "d", " ", "d", "e", "v", "e",
    "l", "o", "p", "m", "e", "n", "t", " ", "f", "o", "r", " ", "c", "l", "i", "e", "n", "t",
    " ", "p", "r", "o", "j", "e", "c", "t", "s", " ", "u", "s", "i", "n", "g", " ", "R", "e",
    "a", "c", "t", " ", "a", "n", "d", " ", "V", "u", "e", ".", "j", "s", "\n", "-", " ", "C",
    "o", "l", "l", "a", "b", "o", "r", "a", "t", "e", " ", "w", "i", "t", "h", " ", "U", "X",
    "/", "U", "I", " ", "d", "e", "s", "i", "g", "n", "e", "r", "s", " ", "t", "o", " ", "i",
    "m", "p", "l", "e", "m", "e", "n", "t", " ", "p", "i", "x", "e", "l", "-", "p", "e", "r",
    "f", "e", "c", "t", " ", "d", "e", "s", "i", "g", "n", "s", "\n", "-", " ", "O", "p", "t",
    "i", "m", "i", "z", "e", " ", "a", "p", "p", "l", "i", "c", "a", "t", "i", "o", "n", "s",
    " ", "f", "o", "r", " ", "m", "a", "x", "i", "m", "u", "m", " ", "s", "p", "e", "e", "d",
    " ", "a", "n", "d", " ", "s", "c", "a", "l", "a", "b", "i", "l", "i", "t", "y", "\n", "-",
    " ", "M", "e", "n", "t", "o", "r", " ", "j", "u", "n", "i", "o", "r", " ", "d", "e", "v",
    "e", "l", "o", "p", "e", "r", "s", " ", "a", "n", "d", " ", "c", "o", "n", "d", "u", "c",
    "t", " ", "c", "o", "d", "e", " ", "r", "e", "v", "i", "e", "w", "s", "\n", "\n", "F", "r",
    "o", "n", "t", "e", "n", "d", " ", "D", "e", "v", "e", "l", "o", "p", "e", "r", " ", "a",
    "t", " ", "W", "e", "b", "S", "o", "l", "u", "t", "i", "o", "n", "s", " ", "(", "2", "0",
    "2", "1", "-", "2", "0", "2", "2", ")", "\n", "-", " ", "D", "e", "v", "e", "l", "o", "p",
    "e", "d", " ", "i", "n", "t", "e", "r", "a", "c", "t", "i", "v", "e", " ", "u", "s", "e",
    "r", " ", "i", "n", "t", "e", "r", "f", "a", "c", "e", "s", " ", "u", "s", "i", "n", "g",
    " ", "R", "e", "a", "c", "t", " ", "a", "n", "d", " ", "T", "y", "p", "e", "S", "c", "r",
    "i", "p", "t", "\n", "-", " ", "I", "m", "p", "l", "e", "m", "e", "n", "t", "e", "d", " ",
    "r", "e", "s", "p", "o", "n", "s", "i", "v", "e", " ", "d", "e", "s", "i", "g", "n", "s",
    " ", "u", "s", "i", "n", "g", " ", "C", "S", "S", " ", "G", "r", "i", "d", " ", "a", "n",
    "d", " ", "F", "l", "e", "x", "b", "o", "x", "\n", "-", " ", "I", "n", "t", "e", "g", "r",
    "a", "t", "e", "d", " ", "f", "r", "o", "n", "t", "e", "n", "d", " ", "a", "p", "p", "l",
    "i", "c", "a", "t", "i", "o", "n", "s", " ", "w", "i", "t", "h", " ", "R", "E", "S", "T",
    "f", "u", "l", " ", "A", "P", "I", "s", "\n", "-", " ", "P", "a", "r", "t", "i", "c", "i",
    "p", "a", "t", "e", "d", " ", "i", "n", " ", "A", "g", "i", "l", "e", " ", "d", "e", "v",
    "e", "l", "o", "p", "m", "e", "n", "t", " ", "p", "r", "o", "c", "e", "s", "s", "e", "s",
    "\n", "\n", "E", "D", "U", "C", "A", "T", "I", "O", "N", ":", "\n", "B", "a", "c", "h",
    "e", "l", "o", "r", " ", "o", "f", " ", "A", "r", "t", "s", " ", "i", "n", " ", "W", "e",
    "b", " ", "D", "e", "s", "i", "g", "n", ",", " ", "C", "r", "e", "a", "t", "i", "v", "e",
    " ", "U", "n", "i", "v", "e", "r", "s", "i", "t", "y", " ", "(", "2", "0", "1", "7", "-",
    "2", "0", "2", "1", ")", "\n", "M", "i", "n", "o", "r", " ", "i", "n", " ", "C", "o", "m",
    "p", "u", "t", "e", "r", " ", "S", "c", "i", "e", "n", "c", "e", "\n", "\n", "T", "E", "C",
    "H", "N", "I", "C", "A", "L", " ", "S", "K", "I", "L", "L", "S", ":", "\n", "L", "a", "n",
    "g", "u", "a", "g", "e", "s", ":", " ", "J", "a", "v", "a", "S", "c", "r", "i", "p", "t",
    ",", " ", "T", "y", "p", "e", "S", "c", "r", "i", "p", "t", ",", " ", "H", "T", "M", "L",
    "5", ",", " ", "C", "S", "S", "3", ",", " ", "S", "a", "s", "s", "\n", "F", "r", "a", "m",
    "e", "w", "o", "r", "k", "s", ":", " ", "R", "e", "a", "c", "t", ",", " ", "V", "u", "e",
    ".", "j", "s", ",", " ", "A", "n", "g", "u", "l", "a", "r", " ", "(", "b", "a", "s", "i",
    "c", ")", "\n", "T", "o", "o", "l", "s", ":", " ", "W", "e", "b", "p", "a", "c", "k", ",",
    " ", "B", "a", "b", "e", "l", ",", " ", "n", "p", "m", ",", " ", "Y", "a", "r", "n", ",",
    " ", "G", "i", "t", "\n", "D", "e", "s", "i", "g", "n", ":", " ", "F", "i", "g", "m", "a",
    ",", " ", "A", "d", "o", "b", "e", " ", "X", "D", ",", " ", "P", "h", "o", "t", "o", "s",
    "h", "o", "p", "\n", "T", "e", "s", "t", "i", "n", "g", ":", " ", "J", "e", "s", "t", ",",
    " ", "C", "y", "p", "r", "e", "s", "s", ",", " ", "R", "e", "a", "c", "t", " ", "T", "e",
    "s", "t", "i", "n", "g", " ", "L", "i", "b", "r", "a", "r", "y", "\n", "R", "e", "s", "p",
    "o", "n", "s", "i", "v", "e", " ", "D", "e", "s", "i", "g", "n", ":", " ", "B", "o", "o",
    "t", "s", "t", "r", "a", "p", ",", " ", "T", "a", "i", "l", "w", "i", "n", "d", " ", "C",
    "S", "S", ",", " ", "C", "S", "S", " ", "G", "r", "i", "d", ",", " ", "F", "l", "e", "x",
    "b", "o", "x", "\n", "\n", "P", "R", "O", "J", "E", "C", "T", "S", ":", "\n", "P", "o",
    "r", "t", "f", "o", "l", "i", "o", " ", "W", "e", "b", "s", "i", "t", "e", " ", "R", "e",
    "d", "e", "s", "i", "g", "n", " ", "(", "2", "0", "2", "3", ")", "\n", "-", " ", "C", "o",
    "m", "p", "l", "e", "t", "e", " ", "r", "e", "d", "e", "s", "i", "g", "n", " ", "o", "f",
    " ", "c", "o", "m", "p", "a", "n", "y", " ", "p", "o", "r", "t", "f", "o", "l", "i", "o",
    " ", "u", "s", "i", "n", "g", " ", "R", "e", "a", "c", "t", " ", "a", "n", "d", " ", "T",
    "a", "i", "l", "w", "i", "n", "d", " ", "C", "S", "S", "\n", "-", " ", "I", "m", "p", "l",
    "e", "m", "e", "n", "t", "e", "d", " ", "s", "m", "o", "o", "t", "h", " ", "a", "n", "i",
    "m", "a", "t", "i", "o", "n", "s", " ", "a", "n", "d", " ", "i", "n", "t", "e", "r", "a",
    "c", "t", "i", "v", "e", " ", "e", "l", "e", "m", "e", "n", "t", "s", "\n", "-", " ", "A",
    "c", "h", "i", "e", "v", "e", "d", " ", "9", "5", "+", " ", "L", "i", "g", "h", "t", "h",
    "o", "u", "s", "e", " ", "p", "e", "r", "f", "o", "r", "m", "a", "n", "c", "e", " ", "s",
    "c", "o", "r", "e", "\n", "\n", "R", "e", "a", "l", " ", "E", "s", "t", "a", "t", "e", " ",
    "P", "l", "a", "t", "f", "o", "r", "m", " ", "(", "2", "0", "2", "2", ")", "\n", "-", " ",
    "F", "r", "o", "n", "t", "e", "n", "d", " ", "d", "e", "v", "e", "l", "o", "p", "m", "e",
    "n", "t", " ", "f", "o", "r", " ", "p", "r", "o", "p", "e", "r", "t", "y", " ", "l", "i",
    "s", "t", "i", "n", "g", " ", "p", "l", "a", "t", "f", "o", "r", "m", "\n", "-", " ", "F",
    "e", "a", "t", "u", "r", "e", "s", ":", " ", "A", "d", "v", "a", "n", "c", "e", "d", " ",
    "s", "e", "a", "r", "c", "h", ",", " ", "v", "i", "r", "t", "u", "a", "l", " ", "t", "o",
    "u", "r", "s", ",", " ", "m", "o", "r", "t", "g", "a", "g", "e", " ", "c", "a", "l", "c",
    "u", "l", "a", "t", "o", "r", "\n", "-", " ", "T", "e", "c", "h", "n", "o", "l", "o", "g",
    "i", "e", "s", ":", " ", "R", "e", "a", "c", "t", ",", " ", "T", "y", "p", "e", "S", "c",
    "r", "i", "p", "t", ",", " ", "G", "o", "o", "g", "l", "e", " ", "M", "a", "p", "s", " ",
    "A", "P", "I">>,
   <<
    "M", "i", "c", "h", "a", "e", "l", " ", "C", "h", "e", "n", "\n", "D", "a", "t", "a", " ",
    "S", "c", "i", "e", "n", "t", "i", "s", "t", "\n", "E", "m", "a", "i", "l", ":", " ", "m",
    "i", "c", "h", "a", "e", "l", ".", "c", "h", "e", "n", "@", "e", "m", "a", "i", "l", ".",
    "c", "o", "m", "\n", "P", "h", "o", "n", "e", ":", " ", "+", "1", "-", "5", "5", "5", "-",
    "1", "2", "3", "-", "4", "5", "6", "7", "\n", "\n", "P", "R", "O", "F", "E", "S", "S", "I",
    "O", "N", "A", "L", " ", "S", "U", "M", "M", "A", "R", "Y", ":", "\n", "D", "a", "t", "a",
    " ", "S", "c", "i", "e", "n", "t", "i", "s", "t", " ", "w", "i", "t", "h", " ", "4", "+",
    " ", "y", "e", "a", "r", "s", " ", "o", "f", " ", "e", "x", "p", "e", "r", "i", "e", "n",
    "c", "e", " ", "i", "n", " ", "m", "a", "c", "h", "i", "n", "e", " ", "l", "e", "a", "r",
    "n", "i", "n", "g", ",", " ", "s", "t", "a", "t", "i", "s", "t", "i", "c", "a", "l", " ",
    "a", "n", "a", "l", "y", "s", "i", "s", ",", " ", "a", "n", "d", " ", "d", "a", "t", "a",
    " ", "v", "i", "s", "u", "a", "l", "i", "z", "a", "t", "i", "o", "n", ".", " ", "P", "r",
    "o", "v", "e", "n", " ", "t", "r", "a", "c", "k", " ", "r", "e", "c", "o", "r", "d", " ",
    "o", "f", " ", "d", "e", "l", "i", "v", "e", "r", "i", "n", "g", " ", "a", "c", "t", "i",
    "o", "n", "a", "b", "l", "e", " ", "i", "n", "s", "i", "g", "h", "t", "s", " ", "f", "r",
    "o", "m", " ", "c", "o", "m", "p", "l", "e", "x", " ", "d", "a", "t", "a", "s", "e", "t",
    "s", ".", "\n", "\n", "E", "X", "P", "E", "R", "I", "E", "N", "C", "E", ":", "\n", "S",
    "e", "n", "i", "o", "r", " ", "D", "a", "t", "a", " ", "S", "c", "i", "e", "n", "t", "i",
    "s", "t", " ", "a", "t", " ", "A", "n", "a", "l", "y", "t", "i", "c", "s", " ", "P", "r",
    "o", " ", "(", "2", "0", "2", "1", "-", "P", "r", "e", "s", "e", "n", "t", ")", "\n", "-",
    " ", "D", "e", "v", "e", "l", "o", "p", "e", "d", " ", "m", "a", "c", "h", "i", "n", "e",
    " ", "l", "e", "a", "r", "n", "i", "n", "g", " ", "m", "o", "d", "e", "l", "s", " ", "f",
    "o", "r", " ", "c", "u", "s", "t", "o", "m", "e", "r", " ", "s", "e", "g", "m", "e", "n",
    "t", "a", "t", "i", "o", "n", " ", "a", "n", "d", " ", "c", "h", "u", "r", "n", " ", "p",
    "r", "e", "d", "i", "c", "t", "i", "o", "n", "\n", "-", " ", "B", "u", "i", "l", "t", " ",
    "e", "n", "d", "-", "t", "o", "-", "e", "n", "d", " ", "M", "L", " ", "p", "i", "p", "e",
    "l", "i", "n", "e", "s", " ", "u", "s", "i", "n", "g", " ", "P", "y", "t", "h", "o", "n",
    ",", " ", "s", "c", "i", "k", "i", "t", "-", "l", "e", "a", "r", "n", ",", " ", "a", "n",
    "d", " ", "T", "e", "n", "s", "o", "r", "F", "l", "o", "w", "\n", "-", " ", "C", "r", "e",
    "a", "t", "e", "d", " ", "i", "n", "t", "e", "r", "a", "c", "t", "i", "v", "e", " ", "d",
    "a", "s", "h", "b", "o", "a", "r", "d", "s", " ", "u", "s", "i", "n", "g", " ", "T", "a",
    "b", "l", "e", "a", "u", " ", "a", "n", "d", " ", "P", "o", "w", "e", "r", " ", "B", "I",
    "\n", "-", " ", "C", "o", "l", "l", "a", "b", "o", "r", "a", "t", "e", "d", " ", "w", "i",
    "t", "h", " ", "b", "u", "s", "i", "n", "e", "s", "s", " ", "s", "t", "a", "k", "e", "h",
    "o", "l", "d", "e", "r", "s", " ", "t", "o", " ", "d", "e", "f", "i", "n", "e", " ", "K",
    "P", "I", "s", " ", "a", "n", "d", " ", "s", "u", "c", "c", "e", "s", "s", " ", "m", "e",
    "t", "r", "i", "c", "s", "\n", "\n", "D", "a", "t", "a", " ", "A", "n", "a", "l", "y", "s",
    "t", " ", "a", "t", " ", "D", "a", "t", "a", "C", "o", "r", "p", " ", "(", "2", "0", "2",
    "0", "-", "2", "0", "2", "1", ")", "\n", "-", " ", "P", "e", "r", "f", "o", "r", "m", "e",
    "d", " ", "s", "t", "a", "t", "i", "s", "t", "i", "c", "a", "l", " ", "a", "n", "a", "l",
    "y", "s", "i", "s", " ", "o", "n", " ", "l", "a", "r", "g", "e", " ", "d", "a", "t", "a",
    "s", "e", "t", "s", " ", "u", "s", "i", "n", "g", " ", "P", "y", "t", "h", "o", "n", " ",
    "a", "n", "d", " ", "R", "\n", "-", " ", "D", "e", "v", "e", "l", "o", "p", "e", "d", " ",
    "a", "u", "t", "o", "m", "a", "t", "e", "d", " ", "r", "e", "p", "o", "r", "t", "i", "n",
    "g", " ", "s", "y", "s", "t", "e", "m", "s", " ", "u", "s", "i", "n", "g", " ", "S", "Q",
    "L", " ", "a", "n", "d", " ", "P", "y", "t", "h", "o", "n", "\n", "-", " ", "C", "r", "e",
    "a", "t", "e", "d", " ", "d", "a", "t", "a", " ", "v", "i", "s", "u", "a", "l", "i", "z",
    "a", "t", "i", "o", "n", "s", " ", "a", "n", "d", " ", "p", "r", "e", "s", "e", "n", "t",
    "a", "t", "i", "o", "n", "s", " ", "f", "o", "r", " ", "e", "x", "e", "c", "u", "t", "i",
    "v", "e", " ", "l", "e", "a", "d", "e", "r", "s", "h", "i", "p", "\n", "-", " ", "I", "m",
    "p", "l", "e", "m", "e", "n", "t", "e", "d", " ", "A", "/", "B", " ", "t", "e", "s", "t",
    "i", "n", "g", " ", "f", "r", "a", "m", "e", "w", "o", "r", "k", "s", " ", "f", "o", "r",
    " ", "p", "r", "o", "d", "u", "c", "t", " ", "o", "p", "t", "i", "m", "i", "z", "a", "t",
    "i", "o", "n", "\n", "\n", "E", "D", "U", "C", "A", "T", "I", "O", "N", ":", "\n", "M",
    "a", "s", "t", "e", "r", " ", "o", "f", " ", "S", "c", "i", "e", "n", "c", "e", " ", "i",
    "n", " ", "D", "a", "t", "a", " ", "S", "c", "i", "e", "n", "c", "e", ",", " ", "T", "e",
    "c", "h", " ", "U", "n", "i", "v", "e", "r", "s", "i", "t", "y", " ", "(", "2", "0", "1",
    "8", "-", "2", "0", "2", "0", ")", "\n", "B", "a", "c", "h", "e", "l", "o", "r", " ", "o",
    "f", " ", "S", "c", "i", "e", "n", "c", "e", " ", "i", "n", " ", "S", "t", "a", "t", "i",
    "s", "t", "i", "c", "s", ",", " ", "S", "t", "a", "t", "e", " ", "C", "o", "l", "l", "e",
    "g", "e", " ", "(", "2", "0", "1", "4", "-", "2", "0", "1", "8", ")", "\n", "\n", "T", "E",
    "C", "H", "N", "I", "C", "A", "L", " ", "S", "K", "I", "L", "L", "S", ":", "\n", "P", "r",
    "o", "g", "r", "a", "m", "m", "i", "n", "g", ":", " ", "P", "y", "t", "h", "o", "n", ",",
    " ", "R", ",", " ", "S", "Q", "L", ",", " ", "S", "c", "a", "l", "a", " ", "(", "b", "a",
    "s", "i", "c", ")", "\n", "M", "a", "c", "h", "i", "n", "e", " ", "L", "e", "a", "r", "n",
    "i", "n", "g", ":", " ", "s", "c", "i", "k", "i", "t", "-", "l", "e", "a", "r", "n", ",",
    " ", "T", "e", "n", "s", "o", "r", "F", "l", "o", "w", ",", " ", "P", "y", "T", "o", "r",
    "c", "h", ",", " ", "X", "G", "B", "o", "o", "s", "t", "\n", "D", "a", "t", "a", " ", "P",
    "r", "o", "c", "e", "s", "s", "i", "n", "g", ":", " ", "P", "a", "n", "d", "a", "s", ",",
    " ", "N", "u", "m", "P", "y", ",", " ", "A", "p", "a", "c", "h", "e", " ", "S", "p", "a",
    "r", "k", "\n", "V", "i", "s", "u", "a", "l", "i", "z", "a", "t", "i", "o", "n", ":", " ",
    "M", "a", "t", "p", "l", "o", "t", "l", "i", "b", ",", " ", "S", "e", "a", "b", "o", "r",
    "n", ",", " ", "P", "l", "o", "t", "l", "y", ",", " ", "T", "a", "b", "l", "e", "a", "u",
    ",", " ", "P", "o", "w", "e", "r", " ", "B", "I", "\n", "D", "a", "t", "a", "b", "a", "s",
    "e", "s", ":", " ", "P", "o", "s", "t", "g", "r", "e", "S", "Q", "L", ",", " ", "M", "o",
    "n", "g", "o", "D", "B", ",", " ", "S", "n", "o", "w", "f", "l", "a", "k", "e", "\n", "C",
    "l", "o", "u", "d", " ", "P", "l", "a", "t", "f", "o", "r", "m", "s", ":", " ", "A", "W",
    "S", " ", "(", "S", "3", ",", " ", "E", "C", "2", ",", " ", "S", "a", "g", "e", "M", "a",
    "k", "e", "r", ")", ",", " ", "G", "o", "o", "g", "l", "e", " ", "C", "l", "o", "u", "d",
    " ", "P", "l", "a", "t", "f", "o", "r", "m", "\n", "S", "t", "a", "t", "i", "s", "t", "i",
    "c", "s", ":", " ", "H", "y", "p", "o", "t", "h", "e", "s", "i", "s", " ", "T", "e", "s",
    "t", "i", "n", "g", ",", " ", "R", "e", "g", "r", "e", "s", "s", "i", "o", "n", " ", "A",
    "n", "a", "l", "y", "s", "i", "s", ",", " ", "T", "i", "m", "e", " ", "S", "e", "r", "i",
    "e", "s", " ", "A", "n", "a", "l", "y", "s", "i", "s", "\n", "\n", "P", "R", "O", "J", "E",
    "C", "T", "S", ":", "\n", "C", "u", "s", "t", "o", "m", "e", "r", " ", "C", "h", "u", "r",
    "n", " ", "P", "r", "e", "d", "i", "c", "t", "i", "o", "n", " ", "M", "o", "d", "e", "l",
    " ", "(", "2", "0", "2", "3", ")", "\n", "-", " ", "D", "e", "v", "e", "l", "o", "p", "e",
    "d", " ", "M", "L", " ", "m", "o", "d", "e", "l", " ", "a", "c", "h", "i", "e", "v", "i",
    "n", "g", " ", "9", "2", "%", " ", "a", "c", "c", "u", "r", "a", "c", "y", " ", "i", "n",
    " ", "p", "r", "e", "d", "i", "c", "t", "i", "n", "g", " ", "c", "u", "s", "t", "o", "m",
    "e", "r", " ", "c", "h", "u", "r", "n", "\n", "-", " ", "I", "m", "p", "l", "e", "m", "e",
    "n", "t", "e", "d", " ", "f", "e", "a", "t", "u", "r", "e", " ", "e", "n", "g", "i", "n",
    "e", "e", "r", "i", "n", "g", " ", "a", "n", "d", " ", "m", "o", "d", "e", "l", " ", "s",
    "e", "l", "e", "c", "t", "i", "o", "n", " ", "t", "e", "c", "h", "n", "i", "q", "u", "e",
    "s", "\n", "-", " ", "D", "e", "p", "l", "o", "y", "e", "d", " ", "m", "o", "d", "e", "l",
    " ", "u", "s", "i", "n", "g", " ", "F", "l", "a", "s", "k", " ", "A", "P", "I", " ", "a",
    "n", "d", " ", "D", "o", "c", "k", "e", "r", " ", "c", "o", "n", "t", "a", "i", "n", "e",
    "r", "s", "\n", "\n", "S", "a", "l", "e", "s", " ", "F", "o", "r", "e", "c", "a", "s", "t",
    "i", "n", "g", " ", "D", "a", "s", "h", "b", "o", "a", "r", "d", " ", "(", "2", "0", "2",
    "2", ")", "\n", "-", " ", "B", "u", "i", "l", "t", " ", "i", "n", "t", "e", "r", "a", "c",
    "t", "i", "v", "e", " ", "d", "a", "s", "h", "b", "o", "a", "r", "d", " ", "f", "o", "r",
    " ", "s", "a", "l", "e", "s", " ", "f", "o", "r", "e", "c", "a", "s", "t", "i", "n", "g",
    " ", "u", "s", "i", "n", "g", " ", "h", "i", "s", "t", "o", "r", "i", "c", "a", "l", " ",
    "d", "a", "t", "a", "\n", "-", " ", "I", "m", "p", "l", "e", "m", "e", "n", "t", "e", "d",
    " ", "A", "R", "I", "M", "A", " ", "a", "n", "d", " ", "P", "r", "o", "p", "h", "e", "t",
    " ", "m", "o", "d", "e", "l", "s", " ", "f", "o", "r", " ", "t", "i", "m", "e", " ", "s",
    "e", "r", "i", "e", "s", " ", "p", "r", "e", "d", "i", "c", "t", "i", "o", "n", "\n", "-",
    " ", "T", "e", "c", "h", "n", "o", "l", "o", "g", "i", "e", "s", ":", " ", "P", "y", "t",
    "h", "o", "n", ",", " ", "S", "t", "r", "e", "a", "m", "l", "i", "t", ",", " ", "P", "o",
    "s", "t", "g", "r", "e", "S", "Q", "L", ",", " ", "P", "l", "o", "t", "l", "y", "\n", "\n",
    "C", "E", "R", "T", "I", "F", "I", "C", "A", "T", "I", "O", "N", "S", ":", "\n", "-", " ",
    "A", "W", "S", " ", "C", "e", "r", "t", "i", "f", "i", "e", "d", " ", "M", "a", "c", "h",
    "i", "n", "e", " ", "L", "e", "a", "r", "n", "i", "n", "g", " ", "-", " ", "S", "p", "e",
    "c", "i", "a", "l", "t", "y", " ", "(", "2", "0", "2", "2", ")", "\n", "-", " ", "G", "o",
    "o", "g", "l", "e", " ", "A", "n", "a", "l", "y", "t", "i", "c", "s", " ", "C", "e", "r",
    "t", "i", "f", "i", "e", "d", " ", "(", "2", "0", "2", "1", ")", "\n", "-", " ", "T", "a",
    "b", "l", "e", "a", "u", " ", "D", "e", "s", "k", "t", "o", "p", " ", "S", "p", "e", "c",
    "i", "a", "l", "i", "s", "t", " ", "(", "2", "0", "2", "1", ")">>>>

Digits == <<"0", "1", "2", "3", "4", "5", "6", "7", "8", "9">>

\* the value of a decimal digit
digitValue == [c \in Range(Digits) |-> (CHOOSE i \in DOMAIN Digits : Digits[i] = c) - 1]

\* the integer spelled by the digits of s from position i on, up to the first other character
RECURSIVE parseDigits(_, _, _)
parseDigits(s, i, acc) ==
  IF i > Len(s) \/ s[i] \notin Range(Digits) THEN acc
  ELSE parseDigits(s, i + 1, 10 * acc + digitValue[s[i]])

\* the first position of s from i on that holds no blank
RECURSIVE skipBlanks(_, _)
skipBlanks(s, i) == IF i <= Len(s) /\ s[i] = " " THEN skipBlanks(s, i + 1) ELSE i

\* parseInt(string): leading blanks and a sign are skipped, the decimal digits that follow
\* are read, whatever comes after them is ignored; NaN without a digit
parseInt(s) ==
  LET i == skipBlanks(s, 1)
      signed == i <= Len(s) /\ s[i] \in {"-", "+"}
      j == IF signed THEN i + 1 ELSE i
  IN  IF j > Len(s) \/ s[j] \notin Range(Digits) THEN NaN
      ELSE IF signed /\ s[i] = "-" THEN Num(0 - parseDigits(s, j, 0))
      ELSE Num(parseDigits(s, j, 0))

\* line 69: getJobDescriptions().find(job => job.id === parseInt(jobId))
findJob(id) ==
  LET wanted == parseInt(id)
      hits == {i \in DOMAIN getJobDescriptions : wanted = Num(getJobDescriptions[i].id)}
  IN  IF hits = {} THEN Undefined
      ELSE getJobDescriptions[CHOOSE i \in hits : \A k \in hits : i <= k]

\* part_005 lines 65-80: what analyzeResumeSimple resolves with
S_analyzeResumeSimple(text, job) ==
  S_generateComprehensiveAnalysis(S_performHardMatch(text, job), job, text)

\* lines 83-94: the spread of analysisResult comes last
D_successResult(name, t, job, analysisResult) ==
  [success |-> TRUE,
   analysis |-> analysisResult @@
                [id |-> t, filename |-> name, job_title |-> job.title,
                 company |-> job.company]]

\* lines 251-268: random is Math.floor(Math.random() * 40), coin is Math.random() > 0.5
D_getFallbackAnalysis(name, t, random, coin) ==
  [success |-> TRUE,
   analysis |->
     [id |-> t,
      filename |-> name,
      relevance_score |-> random + 60,
      verdict |-> IF coin THEN "High" ELSE "Medium",
      matched_skills |-> <<"JavaScript", "React", "Problem Solving">>,
      missing_skills |-> <<"AWS", "Docker">>,
      strengths |-> <<"Strong technical background", "Good project experience">>,
      improvement_suggestions |->
        <<"Add cloud experience", "Get relevant certifications">>,
      feedback |-> "Resume shows good technical foundation but could benefit from additional skills and experience."]]

\* the job ids a caller passes: of a job, of no job, with a tail, not a number, empty,
\* with a leading blank, negative
JobIds ==
  {<<"1">>, <<"2">>, <<"3">>, <<"4">>, <<"2", "a", "b", "c">>, <<"a", "b", "c">>, <<>>,
   <<" ", "3">>, <<"-", "1">>}

\* readings of Date.now()
Clock == {1000, 2000}

InitUpload ==
  /\ IdleUi
  /\ op = "upload" /\ appPc = "start"
  /\ jobId \in JobIds
  /\ file = "resume.pdf"
  /\ now = 0 /\ foundJob = NoResult /\ extractedText = <<>> /\ uploadResult = NoResult
  /\ sampleAnalyses = <<>> /\ request = NoResult /\ response = "none"

\* lines 67-72: the job is looked up; without one the error is thrown into the catch
D_FindJob ==
  /\ op = "upload" /\ appPc = "start"
  /\ foundJob' = findJob(jobId)
  /\ appPc' = IF foundJob' = Undefined THEN "catch" ELSE "extract"
  /\ UNCHANGED <<op, jobId, file, now, extractedText, uploadResult, sampleAnalyses,
                 request, response>>
  /\ UNCHANGED <<scorerVars, uiVars>>

\* lines 75 and 244-245: one of the sample texts, at random
D_ExtractText ==
  /\ op = "upload" /\ appPc = "extract"
  /\ \E randomIndex \in DOMAIN sampleResumeTexts :
       extractedText' = sampleResumeTexts[randomIndex]
  /\ appPc' = "analyze"
  /\ UNCHANGED <<op, jobId, file, now, foundJob, uploadResult, sampleAnalyses,
                 request, response>>
  /\ UNCHANGED <<scorerVars, uiVars>>

\* lines 78-94
D_Analyze ==
  /\ op = "upload" /\ appPc = "analyze"
  /\ now' \in Clock
  /\ uploadResult' = D_successResult(file, now', foundJob,
                                     S_analyzeResumeSimple(extractedText, foundJob))
  /\ appPc' = "done"
  /\ UNCHANGED <<op, jobId, file, foundJob, extractedText, sampleAnalyses,
                 request, response>>
  /\ UNCHANGED <<scorerVars, uiVars>>

\* lines 95-98
D_Fallback ==
  /\ op = "upload" /\ appPc = "catch"
  /\ now' \in Clock
  /\ \E random \in 0..39, coin \in BOOLEAN :
       uploadResult' = D_getFallbackAnalysis(file, now', random, coin)
  /\ appPc' = "done"
  /\ UNCHANGED <<op, jobId, file, foundJob, extractedText, sampleAnalyses,
                 request, response>>
  /\ UNCHANGED <<scorerVars, uiVars>>

----------------------------------------------------------------------------
(* The placement dashboard's generateSampleAnalyses *)

\* part_003 lines 214-219
sampleCandidates ==
  <<"John_Doe_Resume.pdf", "Sarah_Johnson_CV.pdf", "Michael_Chen_Resume.pdf",
    "Emily_Davis_CV.pdf", "David_Wilson_Resume.pdf", "Lisa_Anderson_CV.pdf",
    "Robert_Taylor_Resume.pdf", "Jennifer_Brown_CV.pdf", "James_Miller_Resume.pdf",
    "Maria_Garcia_CV.pdf", "Thomas_Jones_Resume.pdf", "Amanda_Smith_CV.pdf">>

\* part_003 line 221
verdicts == <<"High", "Medium", "Low">>

\* part_003 lines 223-241, the callback of map for the candidate at index (from 0):
\* pick is Math.floor(Math.random() * verdicts.length), random is
\* Math.floor(Math.random() * 20). The fields drawn from further random numbers
\* (matched_skills, missing_skills, analysis_timestamp) and candidate_name are left out.
G_sampleAnalysis(jobs, index, pick, random) ==
  LET job == jobs[(index % Len(jobs)) + 1]
      verdict == verdicts[pick + 1]
      baseScore == IF verdict = "High" THEN 80 ELSE IF verdict = "Medium" THEN 60 ELSE 40
      score == baseScore + random
  IN  [id |-> index + 1,
       filename |-> sampleCandidates[index + 1],
       job_title |-> job.title,
       company |-> job.company,
       relevance_score |-> min(100, score),
       verdict |-> verdict]

InitSamples ==
  /\ IdleUi
  /\ op = "samples" /\ appPc = "start"
  /\ sampleAnalyses = <<>>
  /\ jobId = <<>> /\ file = "none" /\ now = 0
  /\ foundJob = NoResult /\ extractedText = <<>> /\ uploadResult = NoResult
  /\ request = NoResult /\ response = "none"

\* part_003 line 223: map calls its callback for the next candidate
G_MapNext ==
  /\ op = "samples" /\ appPc = "start"
  /\ Len(sampleAnalyses) < MaxCandidates
  /\ \E pick \in 0..2, random \in 0..19 :
       sampleAnalyses' =
         Append(sampleAnalyses,
                G_sampleAnalysis(getJobDescriptions, Len(sampleAnalyses), pick, random))
  /\ UNCHANGED <<op, appPc, jobId, file, now, foundJob, extractedText, uploadResult,
                 request, response>>
  /\ UNCHANGED <<scorerVars, uiVars>>

\* part_003 line 241: map returns the array
G_Return ==
  /\ op = "samples" /\ appPc = "start"
  /\ Len(sampleAnalyses) = MaxCandidates
  /\ appPc' = "done"
  /\ UNCHANGED <<op, jobId, file, now, foundJob, extractedText, uploadResult,
                 sampleAnalyses, request, response>>
  /\ UNCHANGED <<scorerVars, uiVars>>

----------------------------------------------------------------------------
(* middleware *)

\* String.prototype.startsWith
startsWith(s, prefix) ==
  Len(prefix) <= Len(s) /\ SubSeq(s, 1, Len(prefix)) = prefix

\* lines 16-21
publicRoutes ==
  <<<<"/">>,
    <<"/", "a", "u", "t", "h", "/", "l", "o", "g", "i", "n">>,
    <<"/", "a", "u", "t", "h", "/", "r", "e", "g", "i", "s", "t", "e", "r">>,
    <<"/", "a", "u", "t", "h", "/", "f", "o", "r", "g", "o", "t", "-", "p", "a", "s", "s", "w", "o", "r", "d">>>>

\* lines 24-28
protectedRoutes ==
  <<<<"/", "s", "t", "u", "d", "e", "n", "t">>,
    <<"/", "r", "e", "c", "r", "u", "i", "t", "e", "r">>,
    <<"/", "a", "d", "m", "i", "n">>>>

\* lines 31-33
isProtectedRoute(pathname) ==
  \E i \in DOMAIN protectedRoutes : startsWith(pathname, protectedRoutes[i])

\* line 36
isPublicRoute(pathname) == arrayIncludes(publicRoutes, pathname)

\* NextResponse.next(): the request is passed on to the page
NextResponse_next == "next"

\* lines 12-47: both branches answer with NextResponse.next()
middleware(req) ==
  IF isProtectedRoute(req.pathname) THEN NextResponse_next ELSE NextResponse_next

\* the paths requested: the three areas, pages below them, public and other pages
Pathnames ==
  {<<"/">>,
   <<"/", "a", "u", "t", "h", "/", "l", "o", "g", "i", "n">>,
   <<"/", "s", "t", "u", "d", "e", "n", "t">>,
   <<"/", "s", "t", "u", "d", "e", "n", "t", "/", "j", "o", "b", "s">>,
   <<"/", "r", "e", "c", "r", "u", "i", "t", "e", "r">>,
   <<"/", "a", "d", "m", "i", "n", "/", "u", "s", "e", "r", "s">>,
   <<"/", "a", "b", "o", "u", "t">>}

\* a request, with or without a valid session behind it
InitRequest ==
  /\ IdleUi
  /\ op = "request" /\ appPc = "start"
  /\ request \in [pathname : Pathnames, authenticated : BOOLEAN]
  /\ response = "none"
  /\ jobId = <<>> /\ file = "none" /\ now = 0
  /\ foundJob = NoResult /\ extractedText = <<>> /\ uploadResult = NoResult
  /\ sampleAnalyses = <<>>

\* lines 12-47
M_Middleware ==
  /\ op = "request" /\ appPc = "start"
  /\ response' = middleware(request)
  /\ appPc' = "done"
  /\ UNCHANGED <<op, jobId, file, now, foundJob, extractedText, uploadResult,
                 sampleAnalyses, request>>
  /\ UNCHANGED <<scorerVars, uiVars>>

----------------------------------------------------------------------------
(* The application's other operations, one per behaviour *)

InitApp ==
  /\ IdlePipeline /\ IdleCalls /\ providers = <<>>
  /\ (InitUpload \/ InitSamples \/ InitRequest)

NextApp ==
  \/ D_FindJob \/ D_ExtractText \/ D_Analyze \/ D_Fallback
  \/ G_MapNext \/ G_Return
  \/ M_Middleware

SpecApp == InitApp /\ [][NextApp]_vars

----------------------------------------------------------------------------
(* FlaskApiService.uploadAndAnalyzeResume (src/src/services/flaskApiService.ts) *)

\* how a fetch of the service may end: the request fails, the body is no JSON,
\* or the body parses to one of these values (response.ok is never read)
F_Outcomes ==
  {[fetch |-> "rejects"], [fetch |-> "unparseable"]} \cup
  {[fetch |-> "json", body |-> b] :
     b \in {[success |-> TRUE, resume_id |-> 7], [success |-> TRUE, resume_id |-> 0],
            [success |-> TRUE], [success |-> FALSE, error |-> "Invalid file type"],
            [success |-> FALSE], [success |-> FALSE, resume_id |-> 7], Null}}

\* lines 91-107: the parsed body, or the failure of the catch
uploadResume(outcome) ==
  IF outcome.fetch = "json" THEN outcome.body
  ELSE [success |-> FALSE, error |-> "Failed to upload resume"]

\* lines 112-123
analyzeResume(outcome) ==
  IF outcome.fetch = "json" THEN outcome.body
  ELSE [success |-> FALSE, error |-> "Failed to analyze resume"]

\* a call, with or without a progress callback; the callback may throw at one value
InitFlask ==
  /\ op = "flask" /\ appPc = "start"
  /\ request \in [onProgress : {"given", "absent"}, throwsAt : {0, 25, 75, 100}]
  /\ request.onProgress = "absent" => request.throwsAt = 0
  /\ response = "none"
  /\ jobId = <<>> /\ file = "resume.pdf" /\ now = 0
  /\ foundJob = NoResult /\ extractedText = <<>> /\ uploadResult = NoResult
  /\ sampleAnalyses = <<>>
  /\ IdleUi

\* onProgress?.(n) of lines 148, 156, 159: the events after the call, and whether it threw
F_onProgress(n) ==
  [events |-> IF request.onProgress = "given"
              THEN Append(events, [e |-> "onProgress", n |-> n]) ELSE events,
   threw |-> request.onProgress = "given" /\ request.throwsAt = n]

\* a catch that throws the error on instead of returning a failure
F_caught_rethrown == [rejected |-> TRUE]

\* lines 161-164: the catch of uploadAndAnalyzeResume
F_caught == [success |-> FALSE, error |-> "Failed to upload and analyze resume"]

\* lines 146-149: progress 25, then uploadResume is called
F_Begin ==
  /\ op = "flask" /\ appPc = "start"
  /\ LET p == F_onProgress(25) IN
       IF p.threw
       THEN /\ events' = p.events
            /\ settled' = F_caught
            /\ appPc' = "done"
       ELSE /\ events' = Append(p.events, [e |-> "uploadResume", n |-> 0])
            /\ settled' = settled
            /\ appPc' = "uploading"
  /\ UNCHANGED <<op, jobId, file, now, foundJob, extractedText, uploadResult,
                 sampleAnalyses, request, response>>
  /\ UNCHANGED <<resumes, filters, filtered, toasts, listeners, timers,
                 currentToasts, isUploading, selectedFile, uploadProgress>>
  /\ UNCHANGED scorerVars

\* lines 149-157: uploadResume has returned; failure is returned, or progress 75
\* is reported and analyzeResume is called with the resume id
F_UploadSettled ==
  /\ op = "flask" /\ appPc = "uploading"
  /\ \E outcome \in F_Outcomes :
       LET r == uploadResume(outcome)
           p == F_onProgress(75) IN
       /\ uploadResult' = r
       /\ IF r = Null
          THEN /\ events' = events /\ settled' = F_caught /\ appPc' = "done"
          ELSE IF ~r.success \/ "resume_id" \notin DOMAIN r \/ r.resume_id = 0
          THEN /\ events' = events
               /\ settled' = [success |-> FALSE,
                              error |-> IF "error" \in DOMAIN r /\ r.error # ""
                                        THEN r.error ELSE "Upload failed"]
               /\ appPc' = "done"
          ELSE IF p.threw
          THEN /\ events' = p.events /\ settled' = F_caught /\ appPc' = "done"
          ELSE /\ events' = Append(p.events, [e |-> "analyzeResume", n |-> r.resume_id])
               /\ settled' = settled
               /\ appPc' = "analyzing"
  /\ UNCHANGED <<op, jobId, file, now, foundJob, extractedText,
                 sampleAnalyses, request, response>>
  /\ UNCHANGED <<resumes, filters, filtered, toasts, listeners, timers,
                 currentToasts, isUploading, selectedFile, uploadProgress>>
  /\ UNCHANGED scorerVars

\* lines 157-160: analyzeResume has returned; progress 100, and its result is returned
F_AnalyzeSettled ==
  /\ op = "flask" /\ appPc = "analyzing"
  /\ \E outcome \in F_Outcomes :
       LET p == F_onProgress(100) IN
       /\ events' = p.events
       /\ settled' = IF p.threw THEN F_caught ELSE analyzeResume(outcome)
       /\ appPc' = "done"
  /\ UNCHANGED <<op, jobId, file, now, foundJob, extractedText, uploadResult,
                 sampleAnalyses, request, response>>
  /\ UNCHANGED <<resumes, filters, filtered, toasts, listeners, timers,
                 currentToasts, isUploading, selectedFile, uploadProgress>>
  /\ UNCHANGED scorerVars

----------------------------------------------------------------------------
(* useAppStore: the resume list and its filters (src/unnamed/part_009) *)

\* resumes the store is given; createdAt is the day new Date(createdAt) falls on
StoreResumes ==
  { [id |-> "r1", jobDescriptionId |-> "job1",
     analysis |-> [relevanceScore |-> 0, verdict |-> "Low"], createdAt |-> 1],
    [id |-> "r2", jobDescriptionId |-> "job1",
     analysis |-> [relevanceScore |-> 85, verdict |-> "High"], createdAt |-> 2],
    [id |-> "r3", jobDescriptionId |-> "job2",
     analysis |-> [relevanceScore |-> 60, verdict |-> "Medium"], createdAt |-> 3] }

\* Partial<IFilterOptions> values given to updateFilters (lines 214-223)
FilterUpdates ==
  { [jobId |-> "job1"], [jobId |-> ""],
    [minScore |-> 0], [minScore |-> 60], [maxScore |-> 0], [maxScore |-> 60],
    [verdict |-> "High"], [dateFrom |-> 2], [dateTo |-> 2],
    [minScore |-> 60, maxScore |-> 60] }

\* lines 497-534
getFilteredResumes(rs, f) ==
  LET has(k) == k \in DOMAIN f
      byJob     == IF has("jobId") /\ f.jobId # ""
                   THEN SelectSeq(rs, LAMBDA r : r.jobDescriptionId = f.jobId)
                   ELSE rs
      byMin     == IF has("minScore")
                   THEN SelectSeq(byJob, LAMBDA r : r.analysis.relevanceScore >= f.minScore)
                   ELSE byJob
      byMax     == IF has("maxScore")
                   THEN SelectSeq(byMin, LAMBDA r : r.analysis.relevanceScore <= f.maxScore)
                   ELSE byMin
      byVerdict == IF has("verdict") /\ f.verdict # ""
                   THEN SelectSeq(byMax, LAMBDA r : r.analysis.verdict = f.verdict)
                   ELSE byMax
      byFrom    == IF has("dateFrom")
                   THEN SelectSeq(byVerdict, LAMBDA r : r.createdAt >= f.dateFrom)
                   ELSE byVerdict
      byTo      == IF has("dateTo")
                   THEN SelectSeq(byFrom, LAMBDA r : r.createdAt <= f.dateTo)
                   ELSE byFrom
  IN  byTo

\* lines 376-383: the store after creation
InitStore ==
  /\ op = "store" /\ appPc = "ready"
  /\ resumes = <<>> /\ filters = [k \in {} |-> ""] /\ filtered = NoResult
  /\ events = <<>> /\ settled = NoResult
  /\ toasts = <<>> /\ listeners = <<>> /\ timers = <<>> /\ currentToasts = <<>>
  /\ isUploading = FALSE /\ selectedFile = Null /\ uploadProgress = 0
  /\ jobId = <<>> /\ file = "none" /\ now = 0
  /\ foundJob = NoResult /\ extractedText = <<>> /\ uploadResult = NoResult
  /\ sampleAnalyses = <<>> /\ request = NoResult /\ response = "none"

\* a store action that sets the resume list to rs; the caller of an earlier
\* getFilteredResumes() no longer holds the list it was given
St_setList(rs) ==
  /\ op = "store"
  /\ resumes' = rs
  /\ filtered' = NoResult
  /\ appPc' = "ready"
  /\ UNCHANGED <<op, jobId, file, now, foundJob, extractedText, uploadResult,
                 sampleAnalyses, request, response>>
  /\ UNCHANGED <<events, settled, filters, toasts, listeners, timers,
                 currentToasts, isUploading, selectedFile, uploadProgress>>
  /\ UNCHANGED scorerVars

\* a store action that sets the filters to f
St_setFilters(f) ==
  /\ op = "store"
  /\ filters' = f
  /\ filtered' = NoResult
  /\ appPc' = "ready"
  /\ UNCHANGED <<op, jobId, file, now, foundJob, extractedText, uploadResult,
                 sampleAnalyses, request, response>>
  /\ UNCHANGED <<events, settled, resumes, toasts, listeners, timers,
                 currentToasts, isUploading, selectedFile, uploadProgress>>
  /\ UNCHANGED scorerVars

\* lines 409-419
St_addResume ==
  /\ Len(resumes) < MaxResumes
  /\ \E resume \in StoreResumes : St_setList(<<resume>> \o resumes)

\* lines 421-435
St_updateResume ==
  \E resumeId \in {"r1", "r3"},
     updates \in {[analysis |-> [relevanceScore |-> 60, verdict |-> "Medium"]]} :
    St_setList([i \in DOMAIN resumes |->
                  IF resumes[i].id = resumeId THEN updates @@ resumes[i]
                  ELSE resumes[i]])

\* lines 562-571
St_removeResume ==
  \E resumeId \in {"r1", "r2", "r3"} :
    St_setList(SelectSeq(resumes, LAMBDA resume : resume.id # resumeId))

\* lines 554-560
St_setResumes ==
  \E rs \in SeqsUpTo(StoreResumes, MaxResumes) : St_setList(rs)

\* lines 449-458
St_updateFilters ==
  \E f \in FilterUpdates : St_setFilters(f @@ filters)

\* lines 537-543
St_resetFilters == St_setFilters([k \in {} |-> ""])

\* lines 497-534: a caller reads the filtered list
St_getFilteredResumes ==
  /\ op = "store"
  /\ filtered' = [list |-> getFilteredResumes(resumes, filters)]
  /\ appPc' = "returned"
  /\ UNCHANGED <<op, jobId, file, now, foundJob, extractedText, uploadResult,
                 sampleAnalyses, request, response>>
  /\ UNCHANGED <<events, settled, resumes, filters, toasts, listeners, timers,
                 currentToasts, isUploading, selectedFile, uploadProgress>>
  /\ UNCHANGED scorerVars

----------------------------------------------------------------------------
(* Toasts and the Toaster component (src/unnamed/part_006, lines 62-193) *)

\* values of Math.random().toString(36).substr(2, 9) (line 96); nothing keeps
\* two draws apart
ToastIds == {"k3x9q0a1b", "p0q2r7c4d"}

\* toast.success, toast.error, toast.warning, toast.info (lines 88-93)
ToastTypes == {"success", "error", "warning", "info"}

\* the toasts added so far
Added == SelectSeq(events, LAMBDA ev : ev.e = "addToast")

\* no toast was added and no Toaster is rendered
InitToasts ==
  /\ op = "toasts" /\ appPc = "unmounted"
  /\ toasts = <<>> /\ listeners = <<>> /\ timers = <<>> /\ currentToasts = <<>>
  /\ events = <<>> /\ settled = NoResult
  /\ resumes = <<>> /\ filters = <<>> /\ filtered = NoResult
  /\ isUploading = FALSE /\ selectedFile = Null /\ uploadProgress = 0
  /\ jobId = <<>> /\ file = "none" /\ now = 0
  /\ foundJob = NoResult /\ extractedText = <<>> /\ uploadResult = NoResult
  /\ sampleAnalyses = <<>> /\ request = NoResult /\ response = "none"

\* listeners.forEach(listener => listener(toasts)) of lines 99 and 109, after
\* the list became ts and the log became log
notifyListeners(ts, log) ==
  IF listeners # <<>>
  THEN /\ currentToasts' = ts
       /\ events' = Append(log, [e |-> "listener", id |-> ""])
  ELSE /\ currentToasts' = currentToasts
       /\ events' = log

\* lines 107-110
removeToast(id) ==
  /\ toasts' = SelectSeq(toasts, LAMBDA toast : toast.id # id)
  /\ notifyListeners(toasts', events)

\* lines 88-105
T_addToast ==
  /\ op = "toasts"
  /\ Len(Added) < MaxToasts
  /\ \E type \in ToastTypes, id \in ToastIds :
       /\ toasts' = Append(toasts, [id |-> id, duration |-> 5000, type |-> type])
       /\ notifyListeners(toasts', Append(events, [e |-> "addToast", id |-> id]))
       /\ timers' = Append(timers, id)
  /\ UNCHANGED <<op, appPc, jobId, file, now, foundJob, extractedText, uploadResult,
                 sampleAnalyses, request, response>>
  /\ UNCHANGED <<settled, resumes, filters, filtered, listeners,
                 isUploading, selectedFile, uploadProgress>>
  /\ UNCHANGED scorerVars

\* lines 102-104: the timeout of the oldest pending toast runs (every duration
\* is 5000, so the timeouts run in the order they were set)
T_Timeout ==
  /\ op = "toasts"
  /\ timers # <<>>
  /\ removeToast(Head(timers))
  /\ timers' = Tail(timers)
  /\ UNCHANGED <<op, appPc, jobId, file, now, foundJob, extractedText, uploadResult,
                 sampleAnalyses, request, response>>
  /\ UNCHANGED <<settled, resumes, filters, filtered, listeners,
                 isUploading, selectedFile, uploadProgress>>
  /\ UNCHANGED scorerVars

\* line 138: the user closes one of the toasts the component displays
T_Close ==
  /\ op = "toasts" /\ appPc \in {"rendered", "mounted"}
  /\ \E i \in DOMAIN currentToasts : removeToast(currentToasts[i].id)
  /\ UNCHANGED <<op, appPc, jobId, file, now, foundJob, extractedText, uploadResult,
                 sampleAnalyses, request, response>>
  /\ UNCHANGED <<settled, resumes, filters, filtered, listeners, timers,
                 isUploading, selectedFile, uploadProgress>>
  /\ UNCHANGED scorerVars

\* lines 112-113, 127: a Toaster is rendered for the first time, with useState([])
T_Render ==
  /\ op = "toasts" /\ appPc = "unmounted"
  /\ currentToasts' = <<>>
  /\ appPc' = "rendered"
  /\ UNCHANGED <<op, jobId, file, now, foundJob, extractedText, uploadResult,
                 sampleAnalyses, request, response>>
  /\ UNCHANGED <<events, settled, resumes, filters, filtered, toasts, listeners, timers,
                 isUploading, selectedFile, uploadProgress>>
  /\ UNCHANGED scorerVars

\* lines 115-120: its effect runs and registers the listener
T_Effect ==
  /\ op = "toasts" /\ appPc = "rendered"
  /\ listeners' = Append(listeners, "listener")
  /\ appPc' = "mounted"
  /\ UNCHANGED <<op, jobId, file, now, foundJob, extractedText, uploadResult,
                 sampleAnalyses, request, response>>
  /\ UNCHANGED <<events, settled, resumes, filters, filtered, toasts, timers,
                 currentToasts, isUploading, selectedFile, uploadProgress>>
  /\ UNCHANGED scorerVars

\* lines 122-124: the component unmounts; the cleanup takes the listener out and
\* the component's state is gone
T_Unmount ==
  /\ op = "toasts" /\ appPc = "mounted"
  /\ listeners' = SelectSeq(listeners, LAMBDA l : l # "listener")
  /\ currentToasts' = <<>>
  /\ appPc' = "unmounted"
  /\ UNCHANGED <<op, jobId, file, now, foundJob, extractedText, uploadResult,
                 sampleAnalyses, request, response>>
  /\ UNCHANGED <<events, settled, resumes, filters, filtered, toasts, timers,
                 isUploading, selectedFile, uploadProgress>>
  /\ UNCHANGED scorerVars

----------------------------------------------------------------------------
(* The upload components: ResumeUploadZone (src/src/components/ui/input.tsx)  *)
(* and ResumeUploadFlask (src/unnamed/part_008)                               *)

\* part_009 line 347, input.tsx line 434, part_008 line 76: 10 * 1024 * 1024
FILE_LIMITS_MAX_SIZE == 10485760

\* input.tsx line 435, part_008 line 84
allowedTypes ==
  {"application/pdf",
   "application/vnd.openxmlformats-officedocument.wordprocessingml.document"}

\* files a user drops: at the size limit and one byte over it, of three types
UploadFiles ==
  [size : {FILE_LIMITS_MAX_SIZE, FILE_LIMITS_MAX_SIZE + 1},
   type : allowedTypes \cup {"image/png"}]

\* a validation that tests the size alone
validateFile_sizeOnly(f) ==
  IF f.size > FILE_LIMITS_MAX_SIZE
  THEN [isValid |-> FALSE, error |-> "File size must be less than 10MB"]
  ELSE [isValid |-> TRUE]

\* input.tsx lines 433-446; part_008 lines 76-90 make the same two tests
validateFile(f) ==
  IF f.size > FILE_LIMITS_MAX_SIZE
  THEN [isValid |-> FALSE, error |-> "File size must be less than 10MB"]
  ELSE IF f.type \notin allowedTypes
  THEN [isValid |-> FALSE, error |-> "Only PDF and DOCX files are allowed"]
  ELSE [isValid |-> TRUE]

\* how the upload request of a component may end
UploadOutcomes == F_Outcomes \cup {[fetch |-> "notOk"]}

\* input.tsx lines 483-513, part_008 lines 44-58: the message of the error an
\* upload ends with, "" when it ends well
uploadError(outcome) ==
  IF outcome.fetch = "rejects" THEN "Failed to fetch"
  ELSE IF outcome.fetch = "notOk" THEN "Upload failed: Internal Server Error"
  ELSE IF outcome.fetch = "unparseable" THEN "Unexpected token < in JSON"
  ELSE IF outcome.body = Null THEN "Cannot read properties of null"
  ELSE IF outcome.body.success THEN ""
  ELSE IF "error" \in DOMAIN outcome.body THEN outcome.body.error
  ELSE "Analysis failed"

\* a call of a callback prop, or of toast, as the parent sees it
Called(name, msg) == [e |-> name, msg |-> msg]

\* how often a callback (or toast method, or event) was called so far
TimesCalled(name) == Len(SelectSeq(events, LAMBDA ev : ev.e = name))

\* a mounted ResumeUploadZone and the file dropped on it
InitZone ==
  /\ op = "zone" /\ appPc = "idle"
  /\ request \in [jobDescriptionId : {"", "job1"}, disabled : BOOLEAN, file : UploadFiles]
  /\ IdleUi
  /\ response = "none"
  /\ jobId = <<>> /\ file = "none" /\ now = 0
  /\ foundJob = NoResult /\ extractedText = <<>> /\ uploadResult = NoResult
  /\ sampleAnalyses = <<>>

\* input.tsx lines 449-483: handleFileUpload up to the fetch
Z_HandleFileUpload ==
  /\ op = "zone" /\ appPc = "idle"
  /\ LET validation == validateFile(request.file) IN
     IF request.jobDescriptionId = "" \/ request.disabled \/ isUploading
     THEN /\ appPc' = "returned"
          /\ UNCHANGED <<events, isUploading, selectedFile>>
     ELSE IF ~validation.isValid
     THEN /\ events' = events \o <<Called("toast.error", validation.error),
                                   Called("onUploadError", validation.error)>>
          /\ appPc' = "returned"
          /\ UNCHANGED <<isUploading, selectedFile>>
     ELSE /\ isUploading' = TRUE
          /\ selectedFile' = request.file
          /\ events' = events \o <<Called("onUploadStart", ""),
                                   Called("onUploadStart", ""),
                                   Called("fetch", "")>>
          /\ appPc' = "uploading"
  /\ UNCHANGED <<op, jobId, file, now, foundJob, extractedText, uploadResult,
                 sampleAnalyses, request, response>>
  /\ UNCHANGED <<settled, resumes, filters, filtered, toasts, listeners, timers,
                 currentToasts, uploadProgress>>
  /\ UNCHANGED scorerVars

\* input.tsx lines 483-526: the request has ended; the outcome is reported and
\* the finally block resets the state
Z_UploadSettled ==
  /\ op = "zone" /\ appPc = "uploading"
  /\ \E outcome \in UploadOutcomes :
       events' = Append(events,
                        IF uploadError(outcome) = "" THEN Called("onUploadComplete", "")
                        ELSE Called("onUploadError", uploadError(outcome)))
  /\ isUploading' = FALSE
  /\ uploadProgress' = 0
  /\ selectedFile' = Null
  /\ appPc' = "returned"
  /\ UNCHANGED <<op, jobId, file, now, foundJob, extractedText, uploadResult,
                 sampleAnalyses, request, response>>
  /\ UNCHANGED <<settled, resumes, filters, filtered, toasts, listeners, timers,
                 currentToasts>>
  /\ UNCHANGED scorerVars

\* a timer of ResumeUploadFlask, due at time due (time counts tenths of a second)
Timer(name, due) == [name |-> name, due |-> due]

\* the timers without the one called name (clearInterval, or a timeout that ran)
without(ts, name) == SelectSeq(ts, LAMBDA t : t.name # name)

\* a mounted ResumeUploadFlask whose dropzone is enabled, and the file it hands
\* to handleFileUpload
InitUploadFlask ==
  /\ op = "uploadFlask" /\ appPc = "idle"
  /\ request \in [jobDescriptionId : {"job1"}, disabled : {FALSE}, file : UploadFiles]
  /\ IdleUi
  /\ response = "none"
  /\ jobId = <<>> /\ file = "none" /\ now = 0
  /\ foundJob = NoResult /\ extractedText = <<>> /\ uploadResult = NoResult
  /\ sampleAnalyses = <<>>

\* part_008 lines 72-109 and 31-47: handleFileUpload up to the fetch
U_HandleFileUpload ==
  /\ op = "uploadFlask" /\ appPc = "idle"
  /\ LET validation == validateFile(request.file) IN
     IF ~validation.isValid
     THEN /\ events' = events \o <<Called("toast.error", validation.error),
                                   Called("onUploadError", validation.error)>>
          /\ appPc' = "returned"
          /\ UNCHANGED <<isUploading, selectedFile, uploadProgress, timers>>
     ELSE /\ isUploading' = TRUE
          /\ selectedFile' = request.file
          /\ uploadProgress' = 0
          /\ events' = events \o <<Called("onUploadStart", ""), Called("fetch", "")>>
          /\ timers' = Append(timers, Timer("progressInterval", now + 2))
          /\ appPc' = "uploading"
  /\ UNCHANGED <<op, jobId, file, now, foundJob, extractedText, uploadResult,
                 sampleAnalyses, request, response>>
  /\ UNCHANGED <<settled, resumes, filters, filtered, toasts, listeners,
                 currentToasts>>
  /\ UNCHANGED scorerVars

\* part_008 lines 99-107: the interval's callback runs, every 200 ms
U_ProgressInterval ==
  /\ op = "uploadFlask"
  /\ Timer("progressInterval", now) \in Range(timers)
  /\ IF uploadProgress >= 90
     THEN /\ uploadProgress' = 90
          /\ timers' = without(timers, "progressInterval")
     ELSE /\ uploadProgress' = uploadProgress + 10
          /\ timers' = Append(without(timers, "progressInterval"),
                              Timer("progressInterval", now + 2))
  /\ UNCHANGED <<op, appPc, jobId, file, now, foundJob, extractedText, uploadResult,
                 sampleAnalyses, request, response>>
  /\ UNCHANGED <<events, settled, resumes, filters, filtered, toasts, listeners,
                 currentToasts, isUploading, selectedFile>>
  /\ UNCHANGED scorerVars

\* part_008 lines 109-130: uploadToFlask has returned or thrown
U_UploadSettled ==
  /\ op = "uploadFlask" /\ appPc = "uploading"
  /\ \E outcome \in UploadOutcomes :
       IF uploadError(outcome) = ""
       THEN /\ timers' = without(timers, "progressInterval")
                           \o <<Timer("complete", now + 5), Timer("reset", now + 10)>>
            /\ uploadProgress' = 100
            /\ events' = events
            /\ settled' = [success |-> TRUE]
       ELSE /\ timers' = Append(timers, Timer("reset", now + 10))
            /\ uploadProgress' = uploadProgress
            /\ events' = events \o <<Called("toast.error", uploadError(outcome)),
                                     Called("onUploadError", uploadError(outcome))>>
            /\ settled' = [success |-> FALSE]
  /\ appPc' = "returned"
  /\ UNCHANGED <<op, jobId, file, now, foundJob, extractedText, uploadResult,
                 sampleAnalyses, request, response>>
  /\ UNCHANGED <<resumes, filters, filtered, toasts, listeners,
                 currentToasts, isUploading, selectedFile>>
  /\ UNCHANGED scorerVars

\* part_008 lines 114-117: the timeout of 500 ms
U_Complete ==
  /\ op = "uploadFlask"
  /\ Timer("complete", now) \in Range(timers)
  /\ timers' = without(timers, "complete")
  /\ events' = events \o <<Called("onUploadComplete", ""),
                           Called("toast.success", "Resume analyzed successfully with AI!")>>
  /\ UNCHANGED <<op, appPc, jobId, file, now, foundJob, extractedText, uploadResult,
                 sampleAnalyses, request, response>>
  /\ UNCHANGED <<settled, resumes, filters, filtered, toasts, listeners,
                 currentToasts, isUploading, selectedFile, uploadProgress>>
  /\ UNCHANGED scorerVars

\* part_008 lines 125-129: the timeout of 1000 ms
U_Reset ==
  /\ op = "uploadFlask"
  /\ Timer("reset", now) \in Range(timers)
  /\ timers' = without(timers, "reset")
  /\ isUploading' = FALSE
  /\ uploadProgress' = 0
  /\ selectedFile' = Null
  /\ UNCHANGED <<op, appPc, jobId, file, now, foundJob, extractedText, uploadResult,
                 sampleAnalyses, request, response>>
  /\ UNCHANGED <<events, settled, resumes, filters, filtered, toasts, listeners,
                 currentToasts>>
  /\ UNCHANGED scorerVars

\* a tenth of a second passes; the timers that were due have run
U_Time ==
  /\ op = "uploadFlask"
  /\ timers # <<>>
  /\ \A i \in DOMAIN timers : timers[i].due > now
  /\ now' = now + 1
  /\ UNCHANGED <<op, appPc, jobId, file, foundJob, extractedText, uploadResult,
                 sampleAnalyses, request, response>>
  /\ UNCHANGED uiVars
  /\ UNCHANGED scorerVars

----------------------------------------------------------------------------
(* CloudinaryService.uploadFile (src/src/services/cloudinaryService.ts) *)

\* a service with or without a cloud name (line 31), called with all three callbacks
InitCloudinary ==
  /\ op = "cloudinary" /\ appPc = "start"
  /\ request \in [cloudName : {"", "demo"}]
  /\ IdleUi
  /\ response = "none"
  /\ jobId = <<>> /\ file = "resume.pdf" /\ now = 0
  /\ foundJob = NoResult /\ extractedText = <<>> /\ uploadResult = NoResult
  /\ sampleAnalyses = <<>>

\* lines 53-109: without a cloud name the call throws; otherwise the request is sent
K_UploadFile ==
  /\ op = "cloudinary" /\ appPc = "start"
  /\ IF request.cloudName = ""
     THEN /\ settled' = [rejected |-> "Cloudinary not configured. Please add your cloud name to environment variables."]
          /\ events' = events
          /\ appPc' = "done"
     ELSE /\ settled' = settled
          /\ events' = Append(events, Called("xhr.send", ""))
          /\ appPc' = "sent"
  /\ UNCHANGED <<op, jobId, file, now, foundJob, extractedText, uploadResult,
                 sampleAnalyses, request, response>>
  /\ UNCHANGED <<resumes, filters, filtered, toasts, listeners, timers,
                 currentToasts, isUploading, selectedFile, uploadProgress>>
  /\ UNCHANGED scorerVars

\* lines 68-78: a progress event of the upload
K_Progress ==
  /\ op = "cloudinary" /\ appPc = "sent"
  /\ TimesCalled("progress") < MaxProgressEvents
  /\ \E lengthComputable \in BOOLEAN :
       events' = events \o <<Called("progress", "")>>
                        \o (IF lengthComputable THEN <<Called("onProgress", "")>> ELSE <<>>)
  /\ UNCHANGED <<op, appPc, jobId, file, now, foundJob, extractedText, uploadResult,
                 sampleAnalyses, request, response>>
  /\ UNCHANGED <<settled, resumes, filters, filtered, toasts, listeners, timers,
                 currentToasts, isUploading, selectedFile, uploadProgress>>
  /\ UNCHANGED scorerVars

\* lines 81-97: the load event, for a status and a response text
K_Load ==
  /\ op = "cloudinary" /\ appPc = "sent"
  /\ \E status \in {200, 500},
        responseText \in {[json |-> [secure_url |-> "https://res.cloudinary.com/demo/r.pdf"]],
                          [json |-> Null], [text |-> "<html>"]} :
       IF status # 200
       THEN /\ events' = Append(events, Called("onError", "Upload failed with status: 500"))
            /\ settled' = [rejected |-> "Upload failed with status: 500"]
       ELSE IF "json" \in DOMAIN responseText /\ responseText.json # Null
       THEN /\ events' = Append(events, Called("onComplete", responseText.json.secure_url))
            /\ settled' = [resolved |-> responseText.json.secure_url]
       ELSE /\ events' = Append(events, Called("onError", "Failed to parse upload response"))
            /\ settled' = [rejected |-> "Failed to parse upload response"]
  /\ appPc' = "done"
  /\ UNCHANGED <<op, jobId, file, now, foundJob, extractedText, uploadResult,
                 sampleAnalyses, request, response>>
  /\ UNCHANGED <<resumes, filters, filtered, toasts, listeners, timers,
                 currentToasts, isUploading, selectedFile, uploadProgress>>
  /\ UNCHANGED scorerVars

\* lines 100-104: the error event
K_Error ==
  /\ op = "cloudinary" /\ appPc = "sent"
  /\ events' = Append(events, Called("onError", "Network error during upload"))
  /\ settled' = [rejected |-> "Network error during upload"]
  /\ appPc' = "done"
  /\ UNCHANGED <<op, jobId, file, now, foundJob, extractedText, uploadResult,
                 sampleAnalyses, request, response>>
  /\ UNCHANGED <<resumes, filters, filtered, toasts, listeners, timers,
                 currentToasts, isUploading, selectedFile, uploadProgress>>
  /\ UNCHANGED scorerVars

----------------------------------------------------------------------------
(* Services and components, one per behaviour *)

InitUi ==
  /\ IdlePipeline /\ IdleCalls /\ providers = <<>>
  /\ (InitFlask \/ InitStore \/ InitToasts \/ InitZone \/ InitUploadFlask
      \/ InitCloudinary)

NextUi ==
  \/ F_Begin \/ F_UploadSettled \/ F_AnalyzeSettled
  \/ St_addResume \/ St_updateResume \/ St_removeResume \/ St_setResumes
  \/ St_updateFilters \/ St_resetFilters \/ St_getFilteredResumes
  \/ T_addToast \/ T_Timeout \/ T_Close \/ T_Render \/ T_Effect \/ T_Unmount
  \/ Z_HandleFileUpload \/ Z_UploadSettled
  \/ U_HandleFileUpload \/ U_ProgressInterval \/ U_UploadSettled
  \/ U_Complete \/ U_Reset \/ U_Time
  \/ K_UploadFile \/ K_Progress \/ K_Load \/ K_Error

SpecUi == InitUi /\ [][NextUi]_vars

----------------------------------------------------------------------------
(* Properties of concurrent calls *)

\* the replies of a call up to the first that did not throw, which is the last one
RECURSIVE C17_FirstAnswer(_, _)
C17_FirstAnswer(replies, k) ==
  IF k > Len(replies) THEN 0
  ELSE IF ~A_callThrows(replies[k]) THEN k
  ELSE C17_FirstAnswer(replies, k + 1)

\* the report the call c returns when it runs alone and receives the same replies
C17_ReportAlone(c) ==
  IF c.variant = "enhanced"
  THEN E_combineAnalysisResults(E_performHardMatch(c.resumeText, c.jobDescription),
                                E_performLLMAnalysis(c.replies[1]))
  ELSE LET k == C17_FirstAnswer(c.replies, 1)
           finalResult ==
             A_combineAnalysisResults(A_performHardMatch(c.resumeData, c.jobDescription),
                                      A_parseAIResponse(c.replies[k].text, c.replies[k].object))
       IN  IF k = 0 THEN A_performBasicAnalysis(c.resumeData, c.jobDescription)
           ELSE [finalResult EXCEPT !.verdict = A_generateVerdict(finalResult.relevanceScore)]

\* every call that has returned did so with the report it returns alone
C17_ReportsAsAlone ==
  \A i \in DOMAIN calls :
    /\ calls[i].pc = "done" => calls[i].report = C17_ReportAlone(calls[i])
    /\ calls[i].pc # "done" => calls[i].report = NoResult

\* a step is a step of one call: the other call and the providers are left as they were
C17_StepOfOneCall ==
  /\ providers' = providers
  /\ \E i \in DOMAIN calls : \A j \in DOMAIN calls \ {i} : calls'[j] = calls[j]

(* C17: in every interleaving of two concurrent calls of analyzeResumeEnhanced *)
(* (or of AIAnalysisService.analyzeResume), suspended at their network calls,  *)
(* each call returns exactly the report it would return alone, and no step     *)
(* of a call writes the state of the other call or the state they share.       *)
C17_CallsAreIndependent == [](C17_ReportsAsAlone) /\ [][C17_StepOfOneCall]_vars

\* C17 witness: the first call has returned after two provider calls while the second
\* one, begun with another resume and job, is still suspended at its network call
C17_Witness ==
  /\ calls # <<>>
  /\ calls[1].variant = "ai" /\ calls[1].pc = "done" /\ Len(calls[1].replies) = 2
  /\ calls[1].report # NoResult
  /\ calls[2].pc = "awaiting"
  /\ calls[2].hardMatchResult \notin {NoResult, calls[1].hardMatchResult}

----------------------------------------------------------------------------
(* Properties of the application's other operations *)

\* the verdict the thresholds give a relevance score: 80 and up High, 50 to 79 Medium
thresholdVerdict(score) ==
  IF score >= SCORE_THRESHOLDS_HIGH THEN "High"
  ELSE IF score >= SCORE_THRESHOLDS_MEDIUM THEN "Medium"
  ELSE "Low"

\* uploadAndAnalyzeResume has returned, for a job id that names no job
UploadOfUnknownJob ==
  /\ op = "upload" /\ appPc = "done"
  /\ foundJob = Undefined

(* C18: in every report of a fallback or sample path (the result of          *)
(* DirectDbService.getFallbackAnalysis, every analysis generateSampleAnalyses *)
(* makes) the verdict is the one the thresholds give its relevance score:     *)
(* High from 80, Medium from 50 to 79, Low below 50.                          *)
C18_FallbackVerdictFollowsScore ==
  /\ UploadOfUnknownJob =>
       uploadResult.analysis.verdict = thresholdVerdict(uploadResult.analysis.relevance_score)
  /\ \A i \in DOMAIN sampleAnalyses :
       sampleAnalyses[i].verdict = thresholdVerdict(sampleAnalyses[i].relevance_score)

(* C19: uploadAndAnalyzeResume called with a job id that names no job         *)
(* returns a result with success = false and an error, and with no analysis.  *)
C19_UnknownJobIsAnError ==
  UploadOfUnknownJob =>
    /\ uploadResult.success = FALSE
    /\ "error" \in DOMAIN uploadResult
    /\ "analysis" \notin DOMAIN uploadResult

(* C20: a request for a page below /student, /recruiter or /admin that has no *)
(* valid session behind it is never answered with NextResponse.next().        *)
C20_ProtectedRoutesNeedSession ==
  (op = "request" /\ appPc = "done"
     /\ isProtectedRoute(request.pathname) /\ ~request.authenticated) =>
    response # NextResponse_next

----------------------------------------------------------------------------
(* FlaskApiService.uploadAndAnalyzeResume: order of its steps *)

\* the progress values reported so far, in the order of the reports
ProgressReported ==
  LET ps == SelectSeq(events, LAMBDA ev : ev.e = "onProgress")
  IN  [i \in DOMAIN ps |-> ps[i].n]

\* the calls of analyzeResume made so far
AnalyzeCalls == SelectSeq(events, LAMBDA ev : ev.e = "analyzeResume")

\* uploadResume has returned, and not success with a resume id
UploadFailed ==
  /\ op = "flask" /\ appPc \in {"analyzing", "done"} /\ uploadResult # NoResult
  /\ \/ uploadResult = Null
     \/ ~uploadResult.success
     \/ "resume_id" \notin DOMAIN uploadResult
     \/ uploadResult.resume_id = 0

\* the caller's onProgress does not throw
CallbackReturns == request.onProgress = "absent" \/ request.throwsAt = 0

\* C21: analyzeResume is called only after uploadResume returned success with a
\* resume id, once and with that id; after a failed upload the call resolves
\* with success = false, analyzeResume is not called and neither 75 nor 100 is
\* reported; progress is reported in the order 25, 75, 100; the promise never
\* rejects.
C21_UploadThenAnalyze ==
  op = "flask" =>
    /\ AnalyzeCalls # <<>> =>
         /\ ~UploadFailed /\ uploadResult # NoResult
         /\ AnalyzeCalls = <<[e |-> "analyzeResume", n |-> uploadResult.resume_id]>>
    /\ \E k \in 0..3 : ProgressReported = SubSeq(<<25, 75, 100>>, 1, k)
    /\ (UploadFailed /\ appPc = "done") =>
         /\ settled # Null /\ "success" \in DOMAIN settled /\ ~settled.success
         /\ AnalyzeCalls = <<>>
         /\ ProgressReported \in {<<>>, <<25>>}
    /\ appPc = "done" => (settled # NoResult /\ "rejected" \notin DOMAIN settled)
    /\ (appPc = "done" /\ CallbackReturns /\ AnalyzeCalls # <<>>
          /\ request.onProgress = "given") => ProgressReported = <<25, 75, 100>>

\* a call that uploaded, analysed and reported 25, 75 and 100
C21_Witness ==
  /\ op = "flask" /\ appPc = "done"
  /\ ProgressReported = <<25, 75, 100>>
  /\ Len(AnalyzeCalls) = 1
  /\ settled # Null /\ settled.success

\* a call whose upload failed and that resolved with the server's error
C21_WitnessFailed ==
  /\ UploadFailed /\ appPc = "done"
  /\ settled = [success |-> FALSE, error |-> "Invalid file type"]

----------------------------------------------------------------------------
(* useAppStore.getFilteredResumes *)

\* resume r satisfies every filter that filters f hold
SatisfiesFilters(r, f) ==
  /\ "jobId" \in DOMAIN f => r.jobDescriptionId = f.jobId
  /\ "minScore" \in DOMAIN f => r.analysis.relevanceScore >= f.minScore
  /\ "maxScore" \in DOMAIN f => r.analysis.relevanceScore <= f.maxScore
  /\ "verdict" \in DOMAIN f => r.analysis.verdict = f.verdict
  /\ "dateFrom" \in DOMAIN f => r.createdAt >= f.dateFrom
  /\ "dateTo" \in DOMAIN f => r.createdAt <= f.dateTo

\* getFilteredResumes has just returned
FilteredReturned == op = "store" /\ appPc = "returned"

\* the list returned is the list of the resumes that satisfy every filter set
C22_FilteredAreTheMatching ==
  FilteredReturned =>
    filtered.list = SelectSeq(resumes, LAMBDA r : SatisfiesFilters(r, filters))

\* the call changes neither the resume list nor the filters
C22_GetterChangesNothing ==
  [][FilteredReturned' => UNCHANGED <<resumes, filters>>]_vars

\* C22: after any sequence of store actions getFilteredResumes returns exactly
\* the resumes of the store that satisfy every filter currently set, in store
\* order (a minScore or maxScore of 0 included), and changes neither the
\* resume list nor the filters.
C22_StoreFiltering == [](C22_FilteredAreTheMatching) /\ C22_GetterChangesNothing

\* the returned list is the matching one whenever the jobId filter is unset or
\* is not the empty string
C22_FilteredUnlessEmptyJobId ==
  (FilteredReturned /\ ("jobId" \in DOMAIN filters => filters.jobId # "")) =>
     filtered.list = SelectSeq(resumes, LAMBDA r : SatisfiesFilters(r, filters))

\* a minScore of 0 and a maxScore of 0 are applied
C22_ZeroScoreFilters ==
  /\ FilteredReturned
  /\ "minScore" \in DOMAIN filters /\ filters.minScore = 0
  /\ "maxScore" \in DOMAIN filters /\ filters.maxScore = 0
  /\ Len(resumes) = 2 /\ Len(filtered.list) = 1

----------------------------------------------------------------------------
(* Toasts *)

\* no scoring call is under way
InitToastsAlone == IdlePipeline /\ IdleCalls /\ providers = <<>> /\ InitToasts

\* the toasts and one Toaster alone
NextToasts ==
  \/ T_addToast \/ T_Timeout \/ T_Close
  \/ T_Render \/ T_Effect \/ T_Unmount

\* the event loop runs the timeouts it owes
SpecToasts == InitToastsAlone /\ [][NextToasts]_vars /\ WF_vars(T_Timeout)

\* every toast is eventually absent from the list, closed by the user or not
C23_EveryToastGoes == \A n \in 1..MaxToasts : [](Len(toasts) >= n => <>(Len(toasts) < n))

\* a registered listener is called with the new list at every add and removal
C23_ListenersNotified ==
  [][(op = "toasts" /\ toasts' # toasts /\ listeners # <<>>) =>
       (currentToasts' = toasts' /\ Len(events') > Len(events)
          /\ events'[Len(events')].e = "listener")]_vars

\* a step closes one toast: no step takes two toasts off the list
C23_ClosesOneToast == [][op = "toasts" => Len(toasts') >= Len(toasts) - 1]_vars

\* C23: every toast added through toast.success/error/warning/info is
\* eventually absent from the toast list whether or not the user closes it,
\* listeners are notified on the add and on the removal, and closing a toast
\* (manually or by its timer, in either order) never removes a different toast.
C23_ToastsExpire == C23_EveryToastGoes /\ C23_ListenersNotified /\ C23_ClosesOneToast

\* closed by the user first, the toast's timeout later finds nothing to remove
C23_TimeoutAfterClose ==
  /\ op = "toasts" /\ Len(Added) = 1 /\ toasts = <<>> /\ timers = <<>>
  /\ Len(SelectSeq(events, LAMBDA ev : ev.e = "listener")) = 3

----------------------------------------------------------------------------
(* The Toaster component and the toast list *)

\* a Toaster is on the page
ToasterMounted == op = "toasts" /\ appPc \in {"rendered", "mounted"}

\* the component displays the module's list
C28_DisplaysTheList == ToasterMounted => currentToasts = toasts

\* no listener is called while the component is unmounted
C28_NoCallAfterUnmount ==
  [][(op = "toasts" /\ appPc = "unmounted" /\ appPc' = "unmounted") =>
       SelectSeq(events', LAMBDA ev : ev.e = "listener")
         = SelectSeq(events, LAMBDA ev : ev.e = "listener")]_vars

\* C28: while a Toaster is mounted the list it displays equals the module's
\* toast list, from the moment of mounting on and also when toasts were added
\* before it mounted and are still pending; after unmounting its listener is
\* never invoked again.
C28_ToasterInSync == [](C28_DisplaysTheList) /\ C28_NoCallAfterUnmount

----------------------------------------------------------------------------
(* The upload components: validation *)

\* the file dropped is over 10 MB, or is neither a PDF nor a DOCX
OversizeFile == request.file.size > 10 * 1024 * 1024
WrongTypeFile ==
  request.file.type \notin
    {"application/pdf",
     "application/vnd.openxmlformats-officedocument.wordprocessingml.document"}

\* the validation message such a file is refused with
ValidationMessage ==
  IF OversizeFile THEN "File size must be less than 10MB"
  ELSE "Only PDF and DOCX files are allowed"

\* the file was refused: one onUploadError with the validation message, no
\* start, no completion, no request, isUploading false
RefusedWithMessage ==
  /\ SelectSeq(events, LAMBDA ev : ev.e = "onUploadError")
       = <<Called("onUploadError", ValidationMessage)>>
  /\ TimesCalled("onUploadStart") = 0 /\ TimesCalled("onUploadComplete") = 0
  /\ TimesCalled("fetch") = 0
  /\ ~isUploading

\* C24 as stated: in both components a file over 10 MB or of a wrong type is
\* refused before any request: onUploadError once with the validation message,
\* no onUploadStart, no onUploadComplete, isUploading false.
C24_InvalidFileRefused ==
  (op \in {"zone", "uploadFlask"} /\ (OversizeFile \/ WrongTypeFile)) =>
    /\ TimesCalled("fetch") = 0 /\ ~isUploading
    /\ appPc = "returned" => RefusedWithMessage

\* the ResumeUploadZone takes files: it has a job description and is not disabled
ZoneTakesFiles == request.jobDescriptionId # "" /\ ~request.disabled

\* C24, amended: the same, for ResumeUploadFlask.handleFileUpload and for a
\* ResumeUploadZone that has a job description and is not disabled; any other
\* ResumeUploadZone drops the file without calling anything.
C24_InvalidFileRefusedWhenTaken ==
  (op \in {"zone", "uploadFlask"} /\ (OversizeFile \/ WrongTypeFile)) =>
    /\ TimesCalled("fetch") = 0 /\ ~isUploading
    /\ appPc = "returned" =>
         IF op = "uploadFlask" \/ ZoneTakesFiles THEN RefusedWithMessage
         ELSE events = <<>>

\* a ResumeUploadZone has refused an image with the message about the type
C24_Witness ==
  /\ op = "zone" /\ appPc = "returned" /\ ZoneTakesFiles
  /\ WrongTypeFile /\ ~OversizeFile
  /\ events = <<Called("toast.error", "Only PDF and DOCX files are allowed"),
                Called("onUploadError", "Only PDF and DOCX files are allowed")>>

\* a ResumeUploadFlask has refused a PDF one byte over the limit
C24_WitnessFlask ==
  /\ op = "uploadFlask" /\ appPc = "returned"
  /\ OversizeFile /\ ~WrongTypeFile
  /\ TimesCalled("onUploadError") = 1 /\ timers = <<>>

----------------------------------------------------------------------------
(* ResumeUploadFlask: the end of an upload attempt *)

\* an accepted attempt is over: uploadToFlask has returned or thrown and the
\* reset of the finally block has run
AttemptOver ==
  /\ op = "uploadFlask" /\ appPc = "returned" /\ settled # NoResult
  /\ \A i \in DOMAIN timers : timers[i].name # "reset"

\* C25: after an upload attempt has finished, with uploadToFlask succeeding or
\* throwing, ResumeUploadFlask is idle and stays idle: isUploading false,
\* selectedFile null, uploadProgress 0, and no timer of the attempt changes
\* uploadProgress afterwards.
C25_IdleAfterAttempt ==
  AttemptOver => (~isUploading /\ selectedFile = Null /\ uploadProgress = 0)

\* after a successful upload the component is idle and stays idle
C25_IdleAfterSuccess ==
  (AttemptOver /\ settled.success) =>
     (~isUploading /\ selectedFile = Null /\ uploadProgress = 0 /\ timers = <<>>)

----------------------------------------------------------------------------
(* ResumeUploadZone: the callbacks of an accepted upload *)

\* the zone accepted the file: the upload has begun
UploadAccepted == op = "zone" /\ appPc \in {"uploading", "returned"} /\ events # <<>>
                    /\ ~(OversizeFile \/ WrongTypeFile)

\* C26: every accepted upload calls onUploadStart exactly once, and afterwards
\* exactly one of onUploadComplete and onUploadError, exactly once; isUploading
\* is true from the start callback until that outcome and false afterwards.
C26_OneStartOneOutcome ==
  UploadAccepted =>
    /\ TimesCalled("onUploadStart") = 1
    /\ TimesCalled("onUploadComplete") + TimesCalled("onUploadError")
         = (IF appPc = "returned" THEN 1 ELSE 0)
    /\ isUploading = (appPc = "uploading")

\* all of it but the number of start callbacks
C26_OneOutcome ==
  UploadAccepted =>
    /\ TimesCalled("onUploadStart") = 2
    /\ events[1].e = "onUploadStart"
    /\ TimesCalled("onUploadComplete") + TimesCalled("onUploadError")
         = (IF appPc = "returned" THEN 1 ELSE 0)
    /\ isUploading = (appPc = "uploading")

----------------------------------------------------------------------------
(* CloudinaryService.uploadFile: callbacks and promise *)

\* the calls of onComplete and of onError, in order
OutcomeCallbacks == SelectSeq(events, LAMBDA ev : ev.e \in {"onComplete", "onError"})

\* C27: for every uploadFile call exactly one of onComplete and onError is
\* invoked, exactly once, and it agrees with the promise: onComplete(url) if and
\* only if the promise resolves with that url, onError(error) if and only if it
\* rejects with that error, a missing cloud name, a status other than 200, a
\* network error and an unparseable response included.
C27_CallbackAgreesWithPromise ==
  op = "cloudinary" =>
    /\ appPc # "done" => (OutcomeCallbacks = <<>> /\ settled = NoResult)
    /\ appPc = "done" =>
         \/ /\ "resolved" \in DOMAIN settled
            /\ OutcomeCallbacks = <<Called("onComplete", settled.resolved)>>
         \/ /\ "rejected" \in DOMAIN settled
            /\ OutcomeCallbacks = <<Called("onError", settled.rejected)>>

\* the same, for a service that has a cloud name
C27_AgreesWhenConfigured ==
  (op = "cloudinary" /\ request.cloudName # "") =>
    /\ appPc # "done" => (OutcomeCallbacks = <<>> /\ settled = NoResult)
    /\ appPc = "done" =>
         \/ /\ "resolved" \in DOMAIN settled
            /\ OutcomeCallbacks = <<Called("onComplete", settled.resolved)>>
         \/ /\ "rejected" \in DOMAIN settled
            /\ OutcomeCallbacks = <<Called("onError", settled.rejected)>>

====
